---- MODULE Spec2Model ----
(***************************************************************************)
(* A model of the HTVG compiler (JSON element tree -> SVG).                *)
(*                                                                         *)
(* Conventions.                                                            *)
(*  - A Rust string is a sequence of characters; a character is a          *)
(*    one-character TLA+ string, except the two-byte character U+00E9,     *)
(*    written "U+00E9".  Byte lengths and byte slices are computed on the  *)
(*    UTF-8 byte sequence, as str::len and &s[i..j] do.                    *)
(*  - An f32 is an integer number of thousandths (10.0 is 10000, 0.5 is    *)
(*    500).  Every number the model feeds in has at most three decimals.   *)
(*  - Option<T>: [tag |-> "None"] or a record with tag "Some"; a panic of  *)
(*    the Rust code is the value [tag |-> "Panic"].                        *)
(***************************************************************************)
EXTENDS Integers, Sequences, FiniteSets, TLC

VARIABLES
    fn,              \* pure-function specifications: what has been applied
    arg,             \* pure-function specifications: the input
    ret,             \* pure-function specifications: the output
    input,           \* the JSON text, the entry point and the options of the calls
    call,            \* 1 or 2: which of the two compile calls is running
    pc,              \* where the running call is
    trace,           \* the phases the running call has run, in order
    element,         \* the parsed Element tree
    text_engine,     \* LayoutEngine.text_engine: the registered font blobs
    layout_result,   \* LayoutResult: taffy, root, node_data
    render_tree,     \* RenderTree: commands, width, height
    svg,             \* SvgBuilder.output, as a sequence of markup tokens
    clip_id_counter, \* SvgBuilder.clip_id_counter
    result,          \* what the running call returned
    first            \* what the first call returned

pure_vars == <<fn, arg, ret>>

compile_vars ==
    <<input, call, pc, trace, element, text_engine, layout_result, render_tree, svg,
      clip_id_counter, result, first>>

vars == <<pure_vars, compile_vars>>

\* ------------------------------------------------------------------------
\* Bounds of the model
\* ------------------------------------------------------------------------

\* Longest shorthand string, in tokens, that the shorthand specification feeds.
MaxTokens == 5

\* Longest run of characters after the "#" in the free-form hex inputs.
MaxHexLen == 4

\* Most children of the root element of a document.
MaxChildren == 2

\* Longest user-supplied string the serializer specification feeds.
MaxEscapeLen == 3

\* Longest text the word-wrap specification feeds.
MaxWrapLen == 5

\* Longest command stream the serializer specification feeds.
MaxCommands == 4

\* Most lines a Text command of the text specification has.
MaxLines == 3

\* ------------------------------------------------------------------------
\* Strings
\* ------------------------------------------------------------------------

None == [tag |-> "None"]

Panic == [tag |-> "Panic"]

Digits == <<"0", "1", "2", "3", "4", "5", "6", "7", "8", "9">>

IsDigit(c) == \E i \in 1..10 : Digits[i] = c

DigitVal(c) == (CHOOSE i \in 1..10 : Digits[i] = c) - 1

HexLower == <<"a", "b", "c", "d", "e", "f">>

HexUpper == <<"A", "B", "C", "D", "E", "F">>

\* char::to_digit(16): the value of a hexadecimal digit, -1 for any other char.
HexDigitVal(c) ==
    IF IsDigit(c) THEN DigitVal(c)
    ELSE IF \E i \in 1..6 : HexLower[i] = c
    THEN 9 + (CHOOSE i \in 1..6 : HexLower[i] = c)
    ELSE IF \E i \in 1..6 : HexUpper[i] = c
    THEN 9 + (CHOOSE i \in 1..6 : HexUpper[i] = c)
    ELSE -1

\* char::to_digit(radix) for radix 10 and 16.
ToDigit(c, radix) ==
    LET v == HexDigitVal(c) IN IF v >= 0 /\ v < radix THEN v ELSE -1

Upper == <<"A", "B", "C", "D", "E", "F", "G", "K", "L", "N", "R", "T", "U", "W">>

Lower == <<"a", "b", "c", "d", "e", "f", "g", "k", "l", "n", "r", "t", "u", "w">>

\* char::to_lowercase on the letters the model uses.
LowerChar(c) ==
    IF \E i \in 1..Len(Upper) : Upper[i] = c
    THEN Lower[CHOOSE i \in 1..Len(Upper) : Upper[i] = c]
    ELSE c

\* str::to_lowercase
ToLowercase(s) == [i \in 1..Len(s) |-> LowerChar(s[i])]

IsSpace(c) == c = " "

\* Number of UTF-8 bytes of a character.
ByteLen(c) == IF c = "U+00E9" THEN 2 ELSE 1

RECURSIVE StrByteLen(_)
\* str::len: the length in bytes.
StrByteLen(s) == IF s = <<>> THEN 0 ELSE ByteLen(Head(s)) + StrByteLen(Tail(s))

RECURSIVE CharStarts(_, _)
\* The byte offsets at which the characters of s start, s starting at offset at.
CharStarts(s, at) ==
    IF s = <<>> THEN <<>>
    ELSE <<at>> \o CharStarts(Tail(s), at + ByteLen(Head(s)))

\* str::is_char_boundary
IsCharBoundary(s, i) ==
    \/ i = StrByteLen(s)
    \/ \E k \in 1..Len(s) : CharStarts(s, 0)[k] = i

\* &s[i..j] on byte offsets: Panic when an offset is not a char boundary,
\* else [tag |-> "Some", str |-> the characters between the two offsets].
ByteSlice(s, i, j) ==
    IF ~(i <= j /\ j <= StrByteLen(s) /\ IsCharBoundary(s, i) /\ IsCharBoundary(s, j))
    THEN Panic
    ELSE LET st == CharStarts(s, 0)
             keep == {k \in 1..Len(s) : st[k] >= i /\ st[k] < j}
         IN  [tag |-> "Some",
              str |-> [n \in 1..Cardinality(keep) |->
                          s[(CHOOSE k \in keep : Cardinality({m \in keep : m < k}) = n - 1)]]]

RECURSIVE TrimStart(_)
TrimStart(s) == IF s # <<>> /\ IsSpace(Head(s)) THEN TrimStart(Tail(s)) ELSE s

RECURSIVE TrimEnd(_)
TrimEnd(s) ==
    IF s # <<>> /\ IsSpace(s[Len(s)]) THEN TrimEnd(SubSeq(s, 1, Len(s) - 1)) ELSE s

\* str::trim
Trim(s) == TrimEnd(TrimStart(s))

\* str::starts_with
StartsWith(s, p) == Len(s) >= Len(p) /\ SubSeq(s, 1, Len(p)) = p

RECURSIVE TrimStartMatches(_, _)
\* str::trim_start_matches(pattern): removes every repetition of the prefix.
TrimStartMatches(s, p) ==
    IF p # <<>> /\ StartsWith(s, p)
    THEN TrimStartMatches(SubSeq(s, Len(p) + 1, Len(s)), p)
    ELSE s

RECURSIVE TrimEndMatchesChar(_, _)
\* str::trim_end_matches(char)
TrimEndMatchesChar(s, c) ==
    IF s # <<>> /\ s[Len(s)] = c
    THEN TrimEndMatchesChar(SubSeq(s, 1, Len(s) - 1), c)
    ELSE s

RECURSIVE SplitChar(_, _)
\* str::split(char): always at least one piece.
SplitChar(s, c) ==
    IF \A i \in 1..Len(s) : s[i] # c THEN <<s>>
    ELSE LET k == CHOOSE i \in 1..Len(s) : s[i] = c /\ \A j \in 1..(i - 1) : s[j] # c
         IN  <<SubSeq(s, 1, k - 1)>> \o SplitChar(SubSeq(s, k + 1, Len(s)), c)

RECURSIVE SplitWhitespace(_)
\* str::split_whitespace: the non-empty runs of non-whitespace characters.
SplitWhitespace(s) ==
    LET t == TrimStart(s) IN
    IF t = <<>> THEN <<>>
    ELSE IF \A i \in 1..Len(t) : ~IsSpace(t[i]) THEN <<t>>
    ELSE LET k == CHOOSE i \in 1..Len(t) : IsSpace(t[i]) /\ \A j \in 1..(i - 1) : ~IsSpace(t[j])
         IN  <<SubSeq(t, 1, k - 1)>> \o SplitWhitespace(SubSeq(t, k + 1, Len(t)))

RECURSIVE Concat(_)
\* The concatenation of a sequence of strings.
Concat(ss) == IF ss = <<>> THEN <<>> ELSE Head(ss) \o Concat(Tail(ss))

RECURSIVE Join(_, _)
\* The strings of ss joined by the separator sep.
Join(ss, sep) ==
    IF ss = <<>> THEN <<>>
    ELSE IF Len(ss) = 1 THEN ss[1]
    ELSE ss[1] \o sep \o Join(Tail(ss), sep)

\* ------------------------------------------------------------------------
\* Number parsing and formatting
\* ------------------------------------------------------------------------

RECURSIVE DigitsValue(_, _, _)
\* The value of the digit string s in the radix, acc being the value so far;
\* -1 when a character is no digit of the radix.
DigitsValue(s, radix, acc) ==
    IF s = <<>> THEN acc
    ELSE IF ToDigit(Head(s), radix) < 0 THEN -1
    ELSE DigitsValue(Tail(s), radix, acc * radix + ToDigit(Head(s), radix))

\* u8::from_str_radix: an optional leading "+" (never "-" for an unsigned
\* type), at least one digit, no overflow of 255.  -1 stands for Err.
U8FromStrRadix(s, radix) ==
    LET body == IF Len(s) > 1 /\ s[1] = "+" THEN Tail(s) ELSE s
        v == DigitsValue(body, radix, 0)
    IN  IF s = <<>> \/ body = <<>> THEN -1
        ELSE IF v < 0 \/ v > 255 THEN -1
        ELSE v

\* str::parse::<u8>()
ParseU8(s) == U8FromStrRadix(s, 10)

RECURSIVE Pow10(_)
Pow10(n) == IF n = 0 THEN 1 ELSE 10 * Pow10(n - 1)

\* str::parse::<f32>() on decimal literals: an optional sign, digits, an
\* optional "." and digits, at least one digit in all, at most three decimals.
\* The value is in thousandths; [tag |-> "None"] stands for Err.  (Exponents,
\* "inf" and "nan" are outside the alphabet the model feeds.)
ParseF32(s) ==
    LET signed == s # <<>> /\ (s[1] = "+" \/ s[1] = "-")
        neg == s # <<>> /\ s[1] = "-"
        body == IF signed THEN Tail(s) ELSE s
        pieces == SplitChar(body, ".")
        ip == pieces[1]
        fp == IF Len(pieces) = 2 THEN pieces[2] ELSE <<>>
        iv == DigitsValue(ip, 10, 0)
        fv == DigitsValue(fp, 10, 0)
    IN  IF Len(pieces) > 2 \/ (ip = <<>> /\ fp = <<>>) \/ iv < 0 \/ fv < 0 \/ Len(fp) > 3
        THEN None
        ELSE [tag |-> "Some",
              val |-> (IF neg THEN -1 ELSE 1) * (iv * 1000 + fv * Pow10(3 - Len(fp)))]

RECURSIVE DecDigits(_)
\* The decimal digits of a natural number, most significant first.
DecDigits(n) ==
    IF n < 10 THEN <<Digits[n + 1]>> ELSE DecDigits(n \div 10) \o <<Digits[(n % 10) + 1]>>

\* format!("{}", n) for an unsigned integer.
FmtInt(n) == DecDigits(n)

\* format!("{:02x}", n) for a u8: two lower-case hexadecimal digits.
FmtHex2(n) ==
    LET hd(d) == IF d < 10 THEN Digits[d + 1] ELSE HexLower[d - 9]
    IN  <<hd(n \div 16), hd(n % 16)>>

\* `x as u8` for an f32 in thousandths: truncation toward zero, saturating.
F32AsU8(milli) ==
    IF milli <= 0 THEN 0
    ELSE IF milli \div 1000 > 255 THEN 255
    ELSE milli \div 1000

\* ------------------------------------------------------------------------
\* element.rs: Color
\* ------------------------------------------------------------------------

\* Color { r, g, b, a } as an Option value.
SomeColor(r, g, b, a) == [tag |-> "Some", r |-> r, g |-> g, b |-> b, a |-> a]

\* Mutant of FmtAlpha3: the alpha written with one decimal, format!("{:.1}", ..).
FmtAlpha1(a) ==
    LET n == (a * 20 + 255) \div 510
    IN  DecDigits(n \div 10) \o <<".", Digits[(n % 10) + 1]>>

\* format!("{:.3}", a as f32 / 255.0): a/255 rounded to three decimals.  The
\* fractional part of a*1000/255 is a multiple of 1/51, never a tie.
FmtAlpha3(a) ==
    LET n == (a * 2000 + 255) \div 510
        f == n % 1000
    IN  DecDigits(n \div 1000) \o <<".">>
        \o <<Digits[(f \div 100) + 1], Digits[((f \div 10) % 10) + 1], Digits[(f % 10) + 1]>>

\* Color::to_css
ToCss(c) ==
    IF c.a = 255 THEN <<"#">> \o FmtHex2(c.r) \o FmtHex2(c.g) \o FmtHex2(c.b)
    ELSE IF c.a = 0 THEN <<"n", "o", "n", "e">>
    ELSE <<"r", "g", "b", "a", "(">> \o FmtInt(c.r) \o <<",">> \o FmtInt(c.g) \o <<",">>
         \o FmtInt(c.b) \o <<",">> \o FmtAlpha3(c.a) \o <<")">>

\* u8::from_str_radix(&hex[i..j], 16): Panic when the slice panics, -1 for Err.
HexField(hex, i, j) ==
    LET sl == ByteSlice(hex, i, j)
    IN  IF sl.tag = "Panic" THEN Panic
        ELSE [tag |-> "Some", val |-> U8FromStrRadix(sl.str, 16)]

RECURSIVE HexFields(_, _, _, _)
\* The fields of a hex colour read left to right, width bytes each, as the
\* `?` operator reads them: the first slice that panics aborts, the first
\* field that does not parse returns None; acc holds the values read so far.
HexFields(hex, width, n, acc) ==
    IF Len(acc) = n THEN [tag |-> "Some", vals |-> acc]
    ELSE LET f == HexField(hex, Len(acc) * width, (Len(acc) + 1) * width)
         IN  IF f.tag = "Panic" THEN Panic
             ELSE IF f.val < 0 THEN None
             ELSE HexFields(hex, width, n, Append(acc, f.val))

\* The `#` arm of Color::parse, hex being the text after the `#`.
ParseHex(hex) ==
    LET n == StrByteLen(hex)
    IN  IF n = 3
        THEN LET f == HexFields(hex, 1, 3, <<>>)
             IN  IF f.tag # "Some" THEN f
                 ELSE SomeColor(f.vals[1] * 17, f.vals[2] * 17, f.vals[3] * 17, 255)
        ELSE IF n = 6
        THEN LET f == HexFields(hex, 2, 3, <<>>)
             IN  IF f.tag # "Some" THEN f
                 ELSE SomeColor(f.vals[1], f.vals[2], f.vals[3], 255)
        ELSE IF n = 8
        THEN LET f == HexFields(hex, 2, 4, <<>>)
             IN  IF f.tag # "Some" THEN f
                 ELSE SomeColor(f.vals[1], f.vals[2], f.vals[3], f.vals[4])
        ELSE None

\* The named-colour arm of Color::parse.
ParseNamed(s) ==
    LET l == ToLowercase(s)
    IN  IF l = <<"t", "r", "a", "n", "s", "p", "a", "r", "e", "n", "t">> THEN SomeColor(0, 0, 0, 0)
        ELSE IF l = <<"b", "l", "a", "c", "k">> THEN SomeColor(0, 0, 0, 255)
        ELSE IF l = <<"w", "h", "i", "t", "e">> THEN SomeColor(255, 255, 255, 255)
        ELSE IF l = <<"r", "e", "d">> THEN SomeColor(255, 0, 0, 255)
        ELSE IF l = <<"g", "r", "e", "e", "n">> THEN SomeColor(0, 128, 0, 255)
        ELSE IF l = <<"b", "l", "u", "e">> THEN SomeColor(0, 0, 255, 255)
        ELSE None

\* The comma-separated, trimmed parts of an rgb/rgba form.
RgbParts(s) ==
    LET inner == TrimEndMatchesChar(
                     TrimStartMatches(
                         TrimStartMatches(TrimStartMatches(s, <<"r", "g", "b", "a">>),
                                          <<"r", "g", "b">>),
                         <<"(">>),
                     ")")
        raw == SplitChar(inner, ",")
    IN  [i \in 1..Len(raw) |-> Trim(raw[i])]

\* Mutant of AlphaFromFloat: the product rounded to nearest, not truncated.
AlphaFromFloatRounded(milli) == F32AsU8(milli * 255 + 500)

\* (a_float * 255.0) as u8
AlphaFromFloat(milli) == F32AsU8(milli * 255)

\* The rgb/rgba arm of Color::parse for at least three parts.
ParseRgb(parts) ==
    LET r == ParseU8(parts[1])
        g == ParseU8(parts[2])
        b == ParseU8(parts[3])
        af == IF Len(parts) >= 4 THEN ParseF32(parts[4]) ELSE None
    IN  IF r < 0 \/ g < 0 \/ b < 0 THEN None
        ELSE IF Len(parts) >= 4
        THEN IF af.tag = "None" THEN None ELSE SomeColor(r, g, b, AlphaFromFloat(af.val))
        ELSE SomeColor(r, g, b, 255)

\* Color::parse
ColorParse(str) ==
    LET s == Trim(str)
    IN  IF StartsWith(s, <<"#">>) THEN ParseHex(Tail(s))
        ELSE IF StartsWith(s, <<"r", "g", "b">>) /\ Len(RgbParts(s)) >= 3
        THEN ParseRgb(RgbParts(s))
        ELSE ParseNamed(s)

\* ------------------------------------------------------------------------
\* element.rs: Spacing and BorderRadius
\* ------------------------------------------------------------------------

RECURSIVE ParsedTokens(_)
\* .filter_map(|p| p.parse().ok()): the values of the tokens that parse as
\* f32, the others dropped.
ParsedTokens(toks) ==
    IF toks = <<>> THEN <<>>
    ELSE LET v == ParseF32(Head(toks))
         IN  (IF v.tag = "Some" THEN <<v.val>> ELSE <<>>) \o ParsedTokens(Tail(toks))

\* s.split_whitespace().filter_map(|p| p.parse().ok()).collect()
ShorthandParts(s) == ParsedTokens(SplitWhitespace(s))

\* Spacing::Uniform(v) and Spacing::Multi(s); BorderRadius has the same shape.
Uniform(v) == [kind |-> "Uniform", v |-> v]

Multi(s) == [kind |-> "Multi", s |-> s]

\* Spacing::to_edges, the match on parts.len()
EdgesOf(parts) ==
    IF Len(parts) = 1 THEN <<parts[1], parts[1], parts[1], parts[1]>>
    ELSE IF Len(parts) = 2 THEN <<parts[1], parts[2], parts[1], parts[2]>>
    ELSE IF Len(parts) = 3 THEN <<parts[1], parts[2], parts[3], parts[2]>>
    ELSE IF Len(parts) = 4 THEN <<parts[1], parts[2], parts[3], parts[4]>>
    ELSE <<0, 0, 0, 0>>

\* Spacing::to_edges: [top, right, bottom, left]
ToEdges(sp) ==
    IF sp.kind = "Uniform" THEN <<sp.v, sp.v, sp.v, sp.v>> ELSE EdgesOf(ShorthandParts(sp.s))

\* BorderRadius::to_corners, the match on parts.len()
CornersOf(parts) ==
    IF Len(parts) = 1 THEN <<parts[1], parts[1], parts[1], parts[1]>>
    ELSE IF Len(parts) = 2 THEN <<parts[1], parts[2], parts[1], parts[2]>>
    ELSE IF Len(parts) = 4 THEN <<parts[1], parts[2], parts[3], parts[4]>>
    ELSE <<0, 0, 0, 0>>

\* BorderRadius::to_corners: [top-left, top-right, bottom-right, bottom-left]
ToCorners(br) ==
    IF br.kind = "Uniform" THEN <<br.v, br.v, br.v, br.v>> ELSE CornersOf(ShorthandParts(br.s))

\* ------------------------------------------------------------------------
\* element.rs: the Element tree and its deserialization (serde)
\* ------------------------------------------------------------------------

Some(v) == [tag |-> "Some", val |-> v]

Ok(v) == [tag |-> "Ok", val |-> v]

Err == [tag |-> "Err"]

\* A JSON style object: every key the model uses, None when absent.  serde
\* ignores the keys a style struct does not declare.
NoStyle ==
    [display |-> None, width |-> None, height |-> None, margin |-> None, padding |-> None,
     flexDirection |-> None, backgroundColor |-> None, borderWidth |-> None,
     borderColor |-> None, borderRadius |-> None, opacity |-> None, fontFamily |-> None,
     fontSize |-> None, lineHeight |-> None, color |-> None]

\* A JSON element object: the tag and the keys of every variant, None when
\* absent.
JsonElement(type, content, src, width, height, style, children) ==
    [type |-> type, content |-> content, src |-> src, width |-> width, height |-> height,
     style |-> style, children |-> children]

JsonBox(style, children) == JsonElement(Some("box"), None, None, None, None, style, children)

JsonFlex(style, children) == JsonElement(Some("flex"), None, None, None, None, style, children)

JsonText(content, style) == JsonElement(Some("text"), Some(content), None, None, None, style, <<>>)

JsonImage(src, width, height, style) ==
    JsonElement(Some("image"), None, Some(src), Some(width), Some(height), style, <<>>)

\* impl Deserialize for Color, on what Color::parse returned: a colour, an
\* error (ok_or_else), or the panic of Color::parse.
ColorOrError(c) ==
    IF c.tag = "Some" THEN Ok(c)
    ELSE IF c.tag = "None" THEN Err
    ELSE Panic

\* impl Deserialize for Color, on an optional field
DeserializeColor(field) ==
    IF field = None THEN Ok(None) ELSE ColorOrError(ColorParse(field.val))

\* #[derive(Deserialize)] of a lowercase / kebab-case enum, on an optional
\* field: an unknown variant is an error.
DeserializeEnum(field, variants) ==
    IF field = None THEN Ok(None)
    ELSE IF field.val \in variants THEN Ok(field)
    ELSE Err

RECURSIVE FirstFailure(_)
\* The first result of the sequence that is not Ok, or Ok(None) when all are:
\* serde stops at the first field that fails.
FirstFailure(results) ==
    IF results = <<>> THEN Ok(None)
    ELSE IF Head(results).tag # "Ok" THEN Head(results)
    ELSE FirstFailure(Tail(results))

\* BoxStyle, from a JSON style object and its deserialized display and
\* colours (fields in the order of the struct)
BoxStyleOf(js, display, bg, bc) ==
    IF FirstFailure(<<display, bg, bc>>).tag # "Ok" THEN FirstFailure(<<display, bg, bc>>)
    ELSE Ok([display |-> display.val, width |-> js.width, height |-> js.height,
             margin |-> js.margin, padding |-> js.padding,
             background_color |-> bg.val, border_width |-> js.borderWidth,
             border_color |-> bc.val, border_radius |-> js.borderRadius,
             opacity |-> js.opacity])

\* BoxStyle, from a JSON style object
DeserializeBoxStyle(js) ==
    BoxStyleOf(js, DeserializeEnum(js.display, {"block", "flex", "none"}),
               DeserializeColor(js.backgroundColor), DeserializeColor(js.borderColor))

\* FlexStyle, from a JSON style object and its deserialized display,
\* direction and colours
FlexStyleOf(js, display, dir, bg, bc) ==
    IF FirstFailure(<<display, dir, bg, bc>>).tag # "Ok"
    THEN FirstFailure(<<display, dir, bg, bc>>)
    ELSE Ok([display |-> display.val, width |-> js.width, height |-> js.height,
             margin |-> js.margin, padding |-> js.padding, flex_direction |-> dir.val,
             background_color |-> bg.val, border_width |-> js.borderWidth,
             border_color |-> bc.val, border_radius |-> js.borderRadius,
             opacity |-> js.opacity])

\* FlexStyle, from a JSON style object
DeserializeFlexStyle(js) ==
    FlexStyleOf(js, DeserializeEnum(js.display, {"block", "flex", "none"}),
                DeserializeEnum(js.flexDirection,
                                {"row", "column", "row-reverse", "column-reverse"}),
                DeserializeColor(js.backgroundColor), DeserializeColor(js.borderColor))

\* TextStyle, from a JSON style object and its deserialized colour
TextStyleOf(js, color) ==
    IF color.tag # "Ok" THEN color
    ELSE Ok([font_family |-> js.fontFamily, font_size |-> js.fontSize,
             line_height |-> js.lineHeight, color |-> color.val])

\* TextStyle, from a JSON style object
DeserializeTextStyle(js) == TextStyleOf(js, DeserializeColor(js.color))

\* ImageStyle, from a JSON style object: it declares no colour.
DeserializeImageStyle(js) ==
    Ok([width |-> js.width, height |-> js.height, margin |-> js.margin,
        border_radius |-> js.borderRadius, opacity |-> js.opacity])

\* Element::Text from its content and its deserialized style
TextOf(je, st) ==
    IF je.content = None THEN Err
    ELSE IF st.tag # "Ok" THEN st
    ELSE Ok([type |-> "text", content |-> je.content.val, style |-> st.val])

\* Element::Image from its fields and its deserialized style
ImageOf(je, st) ==
    IF je.src = None \/ je.width = None \/ je.height = None THEN Err
    ELSE IF st.tag # "Ok" THEN st
    ELSE Ok([type |-> "image", src |-> je.src.val, width |-> je.width.val,
             height |-> je.height.val, style |-> st.val])

\* Element::Box or Element::Flex from its deserialized style and children
ContainerOf(je, st, kids) ==
    IF st.tag # "Ok" THEN st
    ELSE IF kids.tag # "Ok" THEN kids
    ELSE Ok([type |-> je.type.val, style |-> st.val, children |-> kids.val])

\* Vec<Element>, one step: the child that was read ends the sequence with its
\* error, or is appended
ChildRead(c, acc) == IF c.tag # "Ok" THEN c ELSE Ok(Append(acc, c.val))

RECURSIVE DeserializeElement(_)
RECURSIVE DeserializeChildren(_, _)
\* Vec<Element>: the children in order, stopping at the first that fails;
\* acc is the result for the children read so far.
DeserializeChildren(js, acc) ==
    IF js = <<>> \/ acc.tag # "Ok" THEN acc
    ELSE DeserializeChildren(Tail(js), ChildRead(DeserializeElement(Head(js)), acc.val))

\* #[serde(tag = "type")] enum Element: the tag, the required fields of the
\* variant, its style, its children.
DeserializeElement(je) ==
    IF je.type = None \/ je.type.val \notin {"box", "flex", "text", "image"} THEN Err
    ELSE IF je.type.val = "text" THEN TextOf(je, DeserializeTextStyle(je.style))
    ELSE IF je.type.val = "image" THEN ImageOf(je, DeserializeImageStyle(je.style))
    ELSE IF je.type.val = "box"
    THEN ContainerOf(je, DeserializeBoxStyle(je.style),
                     DeserializeChildren(je.children, Ok(<<>>)))
    ELSE ContainerOf(je, DeserializeFlexStyle(je.style),
                     DeserializeChildren(je.children, Ok(<<>>)))

\* serde_json::from_str of compile (an Element) and of compile_document (an
\* HtvgDocument, whose `content` is required).
ParseInput(in) ==
    IF ~in.json THEN Err
    ELSE IF in.entry = "compile_document" /\ in.content = None THEN Err
    ELSE DeserializeElement(in.content.val)

\* ------------------------------------------------------------------------
\* lib.rs: options and fonts
\* ------------------------------------------------------------------------

Base64Alphabet ==
    {"A", "B", "C", "D", "E", "F", "G", "H", "Q", "a", "b", "c", "w", "0", "1", "9", "+", "/"}

RECURSIVE AllIn(_, _)
\* s.iter().all(|c| S.contains(c))
AllIn(s, S) == IF s = <<>> THEN TRUE ELSE Head(s) \in S /\ AllIn(Tail(s), S)

\* The mutation of Base64Decode that accepts every payload.
Base64DecodeLossy(data) == Ok((Len(data) \div 4) * 3)

\* base64::engine::general_purpose::STANDARD.decode(data): the number of
\* decoded bytes, or Err.  The standard engine wants canonical padding: a
\* length that is a multiple of 4 and at most two '=' at the very end.
Base64Decode(data) ==
    LET n == Len(data)
        pad == IF n >= 2 /\ data[n] = "=" /\ data[n - 1] = "=" THEN 2
               ELSE IF n >= 1 /\ data[n] = "=" THEN 1
               ELSE 0
    IN  IF n % 4 # 0 THEN Err
        ELSE IF ~AllIn(SubSeq(data, 1, n - pad), Base64Alphabet) THEN Err
        ELSE Ok((n \div 4) * 3 - pad)

RECURSIVE RegisterFonts(_, _)
\* compile_element, the loop over options.fonts: decode each font that has
\* data and register it; the first invalid payload ends the loop with Err.
\* The payloads of the model decode to bytes that are not a font, so
\* register_font adds an empty blob list entry and no family.
RegisterFonts(fonts, engine) ==
    IF fonts = <<>> THEN Ok(engine)
    ELSE LET font == Head(fonts)
             bytes == Base64Decode(font.data.val)
         IN  IF font.data = None THEN RegisterFonts(Tail(fonts), engine)
             ELSE IF bytes.tag = "Err" THEN Err
             ELSE RegisterFonts(Tail(fonts),
                                [engine EXCEPT !.blobs = Append(@, bytes.val)])

\* TextLayoutEngine::new(): no font registered.  The model runs where the
\* font collection has no system font (the WASM build), so shaping yields
\* nothing and every measurement takes the fallback path.
TextLayoutEngineNew == [blobs |-> <<>>]

\* ------------------------------------------------------------------------
\* f32 arithmetic on thousandths
\* ------------------------------------------------------------------------

\* a * b
Mul(a, b) == (a * b) \div 1000

Abs(x) == IF x < 0 THEN -x ELSE x

Max(a, b) == IF a >= b THEN a ELSE b

Min(a, b) == IF a <= b THEN a ELSE b

\* f32::round: half away from zero
Round(v) == IF v >= 0 THEN ((v + 500) \div 1000) * 1000 ELSE 0 - (((0 - v) + 500) \div 1000) * 1000

\* ------------------------------------------------------------------------
\* layout.rs: building the Taffy tree
\* ------------------------------------------------------------------------

Zero4 == <<0, 0, 0, 0>>

\* spacing_to_taffy_rect / spacing_to_taffy_rect_lp: [top, right, bottom, left]
SpacingToTaffyRect(spacing) == IF spacing = None THEN Zero4 ELSE ToEdges(spacing.val)

\* box_style_to_taffy
BoxStyleToTaffy(style) ==
    [display |-> IF style.display = Some("none") THEN "None" ELSE "Block",
     width |-> style.width, height |-> style.height,
     margin |-> SpacingToTaffyRect(style.margin),
     padding |-> SpacingToTaffyRect(style.padding),
     border |-> SpacingToTaffyRect(IF style.border_width = None THEN None
                                   ELSE Some(Uniform(style.border_width.val))),
     flex_direction |-> "Row"]

\* flex_style_to_taffy
FlexStyleToTaffy(style) ==
    [display |-> IF style.display = Some("none") THEN "None" ELSE "Flex",
     width |-> style.width, height |-> style.height,
     margin |-> SpacingToTaffyRect(style.margin),
     padding |-> SpacingToTaffyRect(style.padding),
     border |-> SpacingToTaffyRect(IF style.border_width = None THEN None
                                   ELSE Some(Uniform(style.border_width.val))),
     flex_direction |-> IF style.flex_direction = None \/ style.flex_direction = Some("row")
                        THEN "Row"
                        ELSE IF style.flex_direction = Some("column") THEN "Column"
                        ELSE IF style.flex_direction = Some("row-reverse") THEN "RowReverse"
                        ELSE "ColumnReverse"]

\* text_style_to_taffy: Style::default() but for the flex factors
TextStyleToTaffy(style) ==
    [display |-> "Flex", width |-> None, height |-> None, margin |-> Zero4,
     padding |-> Zero4, border |-> Zero4, flex_direction |-> "Row"]

\* image_style_to_taffy
ImageStyleToTaffy(style, intrinsic_width, intrinsic_height) ==
    [display |-> "Flex",
     width |-> IF style.width = None THEN Some(intrinsic_width) ELSE style.width,
     height |-> IF style.height = None THEN Some(intrinsic_height) ELSE style.height,
     margin |-> SpacingToTaffyRect(style.margin),
     padding |-> Zero4, border |-> Zero4, flex_direction |-> "Row"]

\* Color::BLACK
ColorBlack == [r |-> 0, g |-> 0, b |-> 0, a |-> 255]

\* Option<Color> of a parsed style, without the tag of Color::parse's result
VisualColor(c) == IF c = None THEN None ELSE Some([r |-> c.r, g |-> c.g, b |-> c.b, a |-> c.a])

\* VisualStyle of a Box or a Flex
ContainerVisual(style) ==
    [background_color |-> VisualColor(style.background_color),
     border_width |-> IF style.border_width = None THEN 0 ELSE style.border_width.val,
     border_color |-> VisualColor(style.border_color),
     border_radius |-> IF style.border_radius = None THEN Zero4
                       ELSE ToCorners(style.border_radius.val),
     opacity |-> IF style.opacity = None THEN 1000 ELSE style.opacity.val]

\* TaffyTree::new() and an empty node_data map
TaffyNew == [nodes |-> <<>>, node_data |-> <<>>]

\* taffy.new_leaf_with_context / new_with_children followed by
\* node_data.insert: the tree with the new node, which takes the next NodeId,
\* and that NodeId.
NewNode(tree, style, children, context, data) ==
    [tree |-> [nodes |-> Append(tree.nodes,
                                [style |-> style, children |-> children, context |-> context]),
               node_data |-> Append(tree.node_data, data)],
     id |-> Len(tree.nodes) + 1]

\* build_node, Element::Box and Element::Flex, on the tree and the NodeIds
\* its children gave
ContainerNode(el, kids) ==
    NewNode(kids.tree,
            IF el.type = "box" THEN BoxStyleToTaffy(el.style) ELSE FlexStyleToTaffy(el.style),
            kids.ids, None,
            [element_type |-> IF el.type = "box" THEN [kind |-> "Box"] ELSE [kind |-> "Flex"],
             visual |-> ContainerVisual(el.style)])

\* build_node, Element::Text, with the font size and the line height resolved
TextNode(tree, el, font_size, line_height) ==
    NewNode(tree, TextStyleToTaffy(el.style), <<>>,
            [kind |-> "Text", content |-> el.content, font_size |-> font_size,
             line_height |-> line_height],
            [element_type |->
                 [kind |-> "Text", content |-> el.content,
                  style |-> [font_family |-> IF el.style.font_family = None
                                             THEN <<"s", "a", "n", "s", "-", "s", "e", "r", "i", "f">>
                                             ELSE el.style.font_family.val,
                             font_size |-> font_size, font_weight |-> 400,
                             line_height |-> line_height,
                             color |-> IF el.style.color = None THEN ColorBlack
                                       ELSE VisualColor(el.style.color).val]],
             visual |-> [background_color |-> None, border_width |-> 0,
                         border_color |-> None, border_radius |-> Zero4,
                         opacity |-> 1000]])

\* build_node, Element::Image
ImageNode(tree, el) ==
    NewNode(tree, ImageStyleToTaffy(el.style, el.width, el.height), <<>>,
            [kind |-> "Image", width |-> el.width, height |-> el.height],
            [element_type |-> [kind |-> "Image", src |-> el.src],
             visual |-> [background_color |-> None, border_width |-> 0,
                         border_color |-> None,
                         border_radius |-> IF el.style.border_radius = None THEN Zero4
                                           ELSE ToCorners(el.style.border_radius.val),
                         opacity |-> IF el.style.opacity = None THEN 1000
                                     ELSE el.style.opacity.val]])

\* The mutation of ChildBuilt that puts the NodeId before those of the elder
\* siblings.
ChildBuiltFirst(built, ids) == [tree |-> built.tree, ids |-> <<built.id>> \o ids]

\* One child built: its NodeId joins those of its elder siblings.
ChildBuilt(built, ids) == [tree |-> built.tree, ids |-> Append(ids, built.id)]

RECURSIVE BuildNode(_, _)
RECURSIVE BuildChildren(_, _)
\* children.iter().map(|child| self.build_node(..)).collect(): the children
\* are built in order, each whole subtree before the next; kids holds the
\* tree and the NodeIds so far.
BuildChildren(kids, children) ==
    IF children = <<>> THEN kids
    ELSE BuildChildren(ChildBuilt(BuildNode(kids.tree, Head(children)), kids.ids),
                       Tail(children))

\* LayoutEngine::build_node: the tree after the element's subtree has been
\* added, and the NodeId of the element's node.  The children of a container
\* are built before its own node is created.
BuildNode(tree, el) ==
    IF el.type \in {"box", "flex"}
    THEN ContainerNode(el, BuildChildren([tree |-> tree, ids |-> <<>>], el.children))
    ELSE IF el.type = "text"
    THEN TextNode(tree, el,
                  IF el.style.font_size = None THEN 16000 ELSE el.style.font_size.val,
                  IF el.style.line_height = None THEN 1200 ELSE el.style.line_height.val)
    ELSE ImageNode(tree, el)

\* ------------------------------------------------------------------------
\* text.rs: measurement and layout of text without a usable font
\* ------------------------------------------------------------------------

CHAR_WIDTH_RATIO == 550

ASCENT_RATIO == 800

DESCENT_RATIO == 200

\* estimate_text_width: text.chars().count() as f32 * font_size * CHAR_WIDTH_RATIO
EstimateTextWidth(text, font_size) == Mul(Len(text) * font_size, CHAR_WIDTH_RATIO)

RECURSIVE WordWrapLoopNoSpace(_, _, _, _, _, _)
\* The mutation of WordWrapLoop that leaves the space out of the test for a
\* new line.
WordWrapLoopNoSpace(words, font_size, max, lines, current_line, current_width) ==
    IF words = <<>>
    THEN LET pushed == IF current_line # <<>> THEN Append(lines, current_line) ELSE lines
         IN  IF pushed = <<>> THEN <<(<<>>)>> ELSE pushed
    ELSE LET word == Head(words)
             word_width == EstimateTextWidth(word, font_size)
             space_width == Mul(font_size, CHAR_WIDTH_RATIO)
         IN  IF current_line # <<>> /\ max # None /\ current_width + word_width > max.val
             THEN WordWrapLoopNoSpace(Tail(words), font_size, max, Append(lines, current_line),
                                      word, word_width)
             ELSE IF current_line # <<>>
             THEN WordWrapLoopNoSpace(Tail(words), font_size, max, lines,
                                      current_line \o <<" ">> \o word,
                                      current_width + space_width + word_width)
             ELSE WordWrapLoopNoSpace(Tail(words), font_size, max, lines, word, word_width)

RECURSIVE WordWrapLoopDropLine(_, _, _, _, _, _)
\* The mutation of WordWrapLoop that starts a new line without keeping the
\* line it leaves.
WordWrapLoopDropLine(words, font_size, max, lines, current_line, current_width) ==
    IF words = <<>>
    THEN LET pushed == IF current_line # <<>> THEN Append(lines, current_line) ELSE lines
         IN  IF pushed = <<>> THEN <<(<<>>)>> ELSE pushed
    ELSE LET word == Head(words)
             word_width == EstimateTextWidth(word, font_size)
             space_width == Mul(font_size, CHAR_WIDTH_RATIO)
         IN  IF current_line # <<>> /\ max # None
                /\ current_width + space_width + word_width > max.val
             THEN WordWrapLoopDropLine(Tail(words), font_size, max, lines, word, word_width)
             ELSE IF current_line # <<>>
             THEN WordWrapLoopDropLine(Tail(words), font_size, max, lines,
                                       current_line \o <<" ">> \o word,
                                       current_width + space_width + word_width)
             ELSE WordWrapLoopDropLine(Tail(words), font_size, max, lines, word, word_width)

RECURSIVE WordWrapLoop(_, _, _, _, _, _)
\* The loop of word_wrap over text.split_whitespace(), and its tail: lines
\* pushed so far, the line being filled and its width.  max is None for
\* f32::MAX, which no width of the model exceeds.
WordWrapLoop(words, font_size, max, lines, current_line, current_width) ==
    IF words = <<>>
    THEN LET pushed == IF current_line # <<>> THEN Append(lines, current_line) ELSE lines
         IN  IF pushed = <<>> THEN <<(<<>>)>> ELSE pushed
    ELSE LET word == Head(words)
             word_width == EstimateTextWidth(word, font_size)
             space_width == Mul(font_size, CHAR_WIDTH_RATIO)
         IN  IF current_line # <<>> /\ max # None
                /\ current_width + space_width + word_width > max.val
             THEN WordWrapLoop(Tail(words), font_size, max, Append(lines, current_line),
                               word, word_width)
             ELSE IF current_line # <<>>
             THEN WordWrapLoop(Tail(words), font_size, max, lines,
                               current_line \o <<" ">> \o word,
                               current_width + space_width + word_width)
             ELSE WordWrapLoop(Tail(words), font_size, max, lines, word, word_width)

\* word_wrap
WordWrap(text, font_size, max_width) ==
    WordWrapLoop(SplitWhitespace(text), font_size, max_width, <<>>, <<>>, 0)

RECURSIVE MaxLineWidth(_, _)
\* wrapped.iter().map(|l| estimate_text_width(l, font_size)).fold(0.0, f32::max)
MaxLineWidth(wrapped, font_size) ==
    IF wrapped = <<>> THEN 0
    ELSE Max(EstimateTextWidth(Head(wrapped), font_size), MaxLineWidth(Tail(wrapped), font_size))

\* fallback_measure
FallbackMeasure(text, font_size, line_height, max_width) ==
    LET wrapped == WordWrap(text, font_size, max_width)
        row_height == Mul(font_size, line_height)
        width == MaxLineWidth(wrapped, font_size)
    IN  [width |-> IF max_width = None THEN width ELSE Min(width, max_width.val),
         height |-> row_height * Len(wrapped)]

\* fallback_layout
FallbackLayout(text, font_size, line_height, max_width) ==
    LET wrapped == WordWrap(text, font_size, Some(max_width))
        row_height == Mul(font_size, line_height)
        ascent == Mul(font_size, ASCENT_RATIO)
        descent == Mul(font_size, DESCENT_RATIO)
    IN  [width |-> Min(MaxLineWidth(wrapped, font_size), max_width),
         height |-> row_height * Len(wrapped),
         lines |-> [i \in 1..Len(wrapped) |->
                        [text |-> wrapped[i], baseline |-> row_height * (i - 1) + ascent,
                         ascent |-> ascent, descent |-> descent]]]

\* TextLayoutEngine::measure: the shaped layout has zero width, so a
\* non-empty text is measured by fallback_measure with line height 1.2.
Measure(engine, text, font_size, max_width) ==
    IF text = <<>> THEN [width |-> 0, height |-> Mul(font_size, 1200)]
    ELSE FallbackMeasure(text, font_size, 1200, max_width)

\* TextLayoutEngine::layout: no line of the shaped layout has text, so a
\* non-empty text is laid out by fallback_layout.
Layout(engine, text, font_size, line_height, max_width) ==
    IF text = <<>> THEN [width |-> 0, height |-> Mul(font_size, line_height), lines |-> <<>>]
    ELSE FallbackLayout(text, font_size, line_height, max_width)

\* ------------------------------------------------------------------------
\* layout.rs: the measure function and the solver
\* ------------------------------------------------------------------------

Definite(w) == [kind |-> "Definite", v |-> w]

MaxContent == [kind |-> "MaxContent"]

MinContent == [kind |-> "MinContent"]

\* measure_function
MeasureFunction(known_dimensions, available_space, node_context, engine) ==
    IF node_context = None THEN [width |-> 0, height |-> 0]
    ELSE IF node_context.kind = "Text"
    THEN IF known_dimensions.width # None /\ known_dimensions.height # None
         THEN [width |-> known_dimensions.width.val, height |-> known_dimensions.height.val]
         ELSE LET available_width ==
                      IF available_space.kind = "Definite" THEN Some(available_space.v)
                      ELSE IF available_space.kind = "MinContent" THEN Some(0)
                      ELSE None
              IN  Measure(engine, node_context.content, node_context.font_size, available_width)
    ELSE [width |-> IF known_dimensions.width = None THEN node_context.width
                    ELSE known_dimensions.width.val,
          height |-> IF known_dimensions.height = None THEN node_context.height
                     ELSE known_dimensions.height.val]

\* measure_function: the calls of text_engine.measure it makes, as their
\* arguments; only the text branch without both known dimensions makes one.
EngineCalls(known_dimensions, available_space, node_context) ==
    IF node_context = None THEN <<>>
    ELSE IF node_context.kind = "Text"
    THEN IF known_dimensions.width # None /\ known_dimensions.height # None THEN <<>>
         ELSE <<[text |-> node_context.content, font_size |-> node_context.font_size,
                 max_width |-> IF available_space.kind = "Definite" THEN Some(available_space.v)
                               ELSE IF available_space.kind = "MinContent" THEN Some(0)
                               ELSE None]>>
    ELSE <<>>

\* The solver, taffy.compute_layout_with_measure, is a library.  The model
\* solves the subset of CSS the documents of the model use: a block or a
\* column flex stacks its children and stretches them to its content width, a
\* row flex puts them side by side and stretches them to its content height,
\* a container without a size takes the size of its content, a leaf is sized
\* by the measure function, display none gives a zero layout to the whole
\* subtree, and the result is rounded to whole pixels on absolute
\* coordinates.  Margins do not collapse and flex items do not shrink.

ZeroLayout == [x |-> 0, y |-> 0, w |-> 0, h |-> 0]

RECURSIVE HiddenLayouts(_, _)
RECURSIVE HiddenChildren(_, _)
\* Display::None: a zero layout for every node of the subtree
HiddenChildren(tree, ids) ==
    IF ids = <<>> THEN << >>
    ELSE HiddenLayouts(tree, Head(ids)) @@ HiddenChildren(tree, Tail(ids))

HiddenLayouts(tree, id) == (id :> ZeroLayout) @@ HiddenChildren(tree, tree.nodes[id].children)

Reverse(s) == [i \in 1..Len(s) |-> s[Len(s) + 1 - i]]

RECURSIVE SolveNode(_, _, _, _, _, _)
RECURSIVE SolveChildren(_, _, _, _, _, _, _, _, _)
\* The children of a container, in order: each is solved and put at the
\* cursor; `main` is the cursor along the axis, `cross` the largest extent
\* across it, `map` the layouts so far.  stretch is the size children without
\* a size of their own take across the axis, if it is known.
SolveChildren(tree, engine, ids, row, stretch, avail, origin, acc, map) ==
    IF ids = <<>> THEN [main |-> acc.main, cross |-> acc.cross, map |-> map]
    ELSE LET id == Head(ids)
             st == tree.nodes[id].style
             m == st.margin
             known_w == IF ~row /\ stretch # None THEN Some(stretch.val - m[2] - m[4]) ELSE None
             known_h == IF row /\ stretch # None THEN Some(stretch.val - m[1] - m[3]) ELSE None
             solved == SolveNode(tree, engine, id, known_w, known_h, avail)
             x == IF row THEN origin.x + acc.main + m[4] ELSE origin.x + m[4]
             y == IF row THEN origin.y + m[1] ELSE origin.y + acc.main + m[1]
             placed == [solved.map EXCEPT ![id].x = x, ![id].y = y]
             outer_w == solved.w + m[2] + m[4]
             outer_h == solved.h + m[1] + m[3]
         IN  IF st.display = "None"
             THEN SolveChildren(tree, engine, Tail(ids), row, stretch, avail, origin, acc,
                                solved.map @@ map)
             ELSE SolveChildren(tree, engine, Tail(ids), row, stretch, avail, origin,
                                [main |-> acc.main + (IF row THEN outer_w ELSE outer_h),
                                 cross |-> Max(acc.cross, IF row THEN outer_h ELSE outer_w)],
                                placed @@ map)

\* One node: its border-box size and the layouts of its subtree, its own at
\* location (0, 0).  known_w and known_h are the sizes its parent imposes
\* where its style has none; avail_w is the available width.
SolveNode(tree, engine, id, known_w, known_h, avail_w) ==
    LET node == tree.nodes[id]
        st == node.style
        pb_left == st.padding[4] + st.border[4]
        pb_top == st.padding[1] + st.border[1]
        pb_h == pb_left + st.padding[2] + st.border[2]
        pb_v == pb_top + st.padding[3] + st.border[3]
        w_known == IF st.width # None THEN st.width ELSE known_w
        h_known == IF st.height # None THEN st.height ELSE known_h
        inner_avail == IF w_known # None THEN Definite(w_known.val - pb_h)
                       ELSE IF avail_w.kind = "Definite" THEN Definite(avail_w.v - pb_h)
                       ELSE avail_w
    IN  IF st.display = "None" THEN [w |-> 0, h |-> 0, map |-> HiddenLayouts(tree, id)]
        ELSE IF node.children = <<>>
        THEN LET content_known ==
                     [width |-> IF w_known = None THEN None ELSE Some(w_known.val - pb_h),
                      height |-> IF h_known = None THEN None ELSE Some(h_known.val - pb_v)]
                 measured == IF w_known # None /\ h_known # None
                             THEN [width |-> content_known.width.val,
                                   height |-> content_known.height.val]
                             ELSE MeasureFunction(content_known, inner_avail, node.context,
                                                  engine)
                 w == IF w_known # None THEN w_known.val ELSE measured.width + pb_h
                 h == IF h_known # None THEN h_known.val ELSE measured.height + pb_v
             IN  [w |-> w, h |-> h, map |-> (id :> [x |-> 0, y |-> 0, w |-> w, h |-> h])]
        ELSE LET row == st.display = "Flex" /\ st.flex_direction \in {"Row", "RowReverse"}
                 ids == IF st.flex_direction \in {"RowReverse", "ColumnReverse"}
                        THEN Reverse(node.children) ELSE node.children
                 origin == [x |-> pb_left, y |-> pb_top]
                 start == [main |-> 0, cross |-> 0]
                 natural == SolveChildren(tree, engine, ids, row,
                                          IF row THEN None
                                          ELSE IF w_known = None THEN None
                                          ELSE Some(w_known.val - pb_h),
                                          inner_avail, origin, start, << >>)
                 inner_h == IF h_known # None THEN h_known.val - pb_v ELSE natural.cross
                 kids == IF row
                         THEN SolveChildren(tree, engine, ids, row, Some(inner_h), inner_avail,
                                            origin, start, << >>)
                         ELSE natural
                 w == IF w_known # None THEN w_known.val
                      ELSE (IF row THEN kids.main ELSE kids.cross) + pb_h
                 h == IF h_known # None THEN h_known.val
                      ELSE (IF row THEN kids.cross ELSE kids.main) + pb_v
             IN  [w |-> w, h |-> h,
                  map |-> (id :> [x |-> 0, y |-> 0, w |-> w, h |-> h]) @@ kids.map]

RECURSIVE RoundLayout(_, _, _, _, _)
RECURSIVE RoundChildren(_, _, _, _, _)
\* Taffy's rounding pass over the children of a node
RoundChildren(tree, unrounded, ids, cum_x, cum_y) ==
    IF ids = <<>> THEN << >>
    ELSE RoundLayout(tree, unrounded, Head(ids), cum_x, cum_y)
             @@ RoundChildren(tree, unrounded, Tail(ids), cum_x, cum_y)

\* Taffy's rounding pass: locations are rounded, sizes are the difference of
\* the rounded absolute edges.
RoundLayout(tree, unrounded, id, cum_x, cum_y) ==
    LET u == unrounded[id]
        ax == cum_x + u.x
        ay == cum_y + u.y
    IN  (id :> [x |-> Round(u.x), y |-> Round(u.y),
                w |-> Round(ax + u.w) - Round(ax), h |-> Round(ay + u.h) - Round(ay)])
            @@ RoundChildren(tree, unrounded, tree.nodes[id].children, ax, ay)

\* taffy.compute_layout_with_measure(root, available_space, measure): the
\* layout of every node.  A block root fills the available width.
ComputeLayoutWithMeasure(tree, engine, root, viewport_width, viewport_height) ==
    LET st == tree.nodes[root].style
        known_w == IF st.display = "Block"
                   THEN Some(viewport_width - st.margin[2] - st.margin[4]) ELSE None
        solved == SolveNode(tree, engine, root, known_w, None, Definite(viewport_width))
    IN  RoundLayout(tree, solved.map, root, 0, 0)

\* ------------------------------------------------------------------------
\* render.rs: the flattener
\* ------------------------------------------------------------------------

Rect(x, y, width, height) == [x |-> x, y |-> y, width |-> width, height |-> height]

\* The mutation of CloseOpacity that closes a group for every node.
CloseOpacityAlways(needs_opacity) == <<[kind |-> "PopOpacity"]>>

\* render_node, "Handle opacity": PushOpacity when the opacity is below 1
OpenOpacity(visual) ==
    IF visual.opacity < 1000 THEN <<[kind |-> "PushOpacity", opacity |-> visual.opacity]>>
    ELSE <<>>

\* render_node, "Close opacity group": PopOpacity when one was pushed
CloseOpacity(needs_opacity) == IF needs_opacity THEN <<[kind |-> "PopOpacity"]>> ELSE <<>>

\* render_node, "Draw background"
DrawBackground(visual, rect) ==
    IF visual.background_color # None /\ visual.background_color.val.a > 0
    THEN <<[kind |-> "FillRect", rect |-> rect, color |-> visual.background_color.val,
            border_radius |-> visual.border_radius]>>
    ELSE <<>>

\* render_node, "Draw border"
DrawBorder(visual, rect) ==
    IF visual.border_width > 0 /\ visual.border_color # None /\ visual.border_color.val.a > 0
    THEN <<[kind |-> "StrokeRect", rect |-> rect, color |-> visual.border_color.val,
            width |-> visual.border_width, border_radius |-> visual.border_radius]>>
    ELSE <<>>

RECURSIVE TextLinesPerLine(_, _, _, _)
\* The mutation of TextLines that gives every entry the text of its own line.
TextLinesPerLine(lines, content, x, current_y) ==
    IF lines = <<>> THEN <<>>
    ELSE <<[x |-> x, y |-> current_y + Head(lines).baseline, text |-> Head(lines).text]>>
             \o TextLinesPerLine(Tail(lines), content, x,
                                 current_y + Head(lines).ascent + Head(lines).descent)

RECURSIVE TextLines(_, _, _, _)
\* render_node, the loop over text_layout.lines: every entry takes the whole
\* content and current_y + line.baseline, and current_y advances by
\* ascent + descent.
TextLines(lines, content, x, current_y) ==
    IF lines = <<>> THEN <<>>
    ELSE <<[x |-> x, y |-> current_y + Head(lines).baseline, text |-> content]>>
             \o TextLines(Tail(lines), content, x, current_y + Head(lines).ascent + Head(lines).descent)

\* render_node, ElementType::Text
DrawText(engine, element_type, rect) ==
    LET style == element_type.style
        text_layout == Layout(engine, element_type.content, style.font_size,
                              style.line_height, rect.width)
    IN  <<[kind |-> "Text", x |-> rect.x,
           y |-> rect.y + (IF text_layout.lines = <<>> THEN style.font_size
                           ELSE text_layout.lines[1].baseline),
           content |-> element_type.content, font_family |-> style.font_family,
           font_size |-> style.font_size, font_weight |-> style.font_weight,
           color |-> style.color,
           lines |-> TextLines(text_layout.lines, element_type.content, rect.x, rect.y)]>>

RECURSIVE RenderNode(_, _, _, _, _)
RECURSIVE RenderChildren(_, _, _, _, _)
RECURSIVE RenderChildrenReversed(_, _, _, _, _)
RECURSIVE RenderChildrenNoOffset(_, _, _, _, _)
\* The mutation of RenderChildren that does not hand the position of the
\* parent down.
RenderChildrenNoOffset(layout, engine, children, x, y) ==
    IF children = <<>> THEN <<>>
    ELSE RenderNode(layout, engine, Head(children), 0, 0)
             \o RenderChildrenNoOffset(layout, engine, Tail(children), x, y)

\* The mutation of RenderChildren that walks the children last to first.
RenderChildrenReversed(layout, engine, children, x, y) ==
    IF children = <<>> THEN <<>>
    ELSE RenderNode(layout, engine, children[Len(children)], x, y)
             \o RenderChildrenReversed(layout, engine, SubSeq(children, 1, Len(children) - 1), x, y)

\* render_node, the loop over the children of a container
RenderChildren(layout, engine, children, x, y) ==
    IF children = <<>> THEN <<>>
    ELSE RenderNode(layout, engine, Head(children), x, y)
             \o RenderChildren(layout, engine, Tail(children), x, y)

\* render_node: the commands of the subtree of node_id
RenderNode(layout, engine, node_id, parent_x, parent_y) ==
    LET node_layout == layout.taffy.layouts[node_id]
        data == layout.node_data[node_id]
        x == parent_x + node_layout.x
        y == parent_y + node_layout.y
        rect == Rect(x, y, node_layout.w, node_layout.h)
        needs_opacity == data.visual.opacity < 1000
    IN  OpenOpacity(data.visual)
            \o DrawBackground(data.visual, rect)
            \o DrawBorder(data.visual, rect)
            \o (IF data.element_type.kind \in {"Box", "Flex"}
                THEN RenderChildren(layout, engine, layout.taffy.nodes[node_id].children, x, y)
                ELSE IF data.element_type.kind = "Text"
                THEN DrawText(engine, data.element_type, rect)
                ELSE <<[kind |-> "Image", rect |-> rect, src |-> data.element_type.src,
                        border_radius |-> data.visual.border_radius]>>)
            \o CloseOpacity(needs_opacity)

\* The mutation of BuildRenderTree that takes the canvas from the viewport
\* of the options.
BuildRenderTreeViewport(layout, engine) ==
    [commands |-> RenderNode(layout, engine, layout.root, 0, 0),
     width |-> input.options.width,
     height |-> IF input.options.height = None THEN layout.taffy.layouts[layout.root].h
                ELSE input.options.height.val]

\* build_render_tree
BuildRenderTree(layout, engine) ==
    [commands |-> RenderNode(layout, engine, layout.root, 0, 0),
     width |-> layout.taffy.layouts[layout.root].w,
     height |-> layout.taffy.layouts[layout.root].h]

\* ------------------------------------------------------------------------
\* svg.rs: the serializer
\* ------------------------------------------------------------------------

\* format!("{:.2}", v): the sign, the integer part, a point and two decimals;
\* the third decimal rounds to nearest, a tie to even.
Fmt2(v) ==
    LET mag == IF v < 0 THEN 0 - v ELSE v
        low == mag \div 10
        rest == mag % 10
        hundredths == IF rest > 5 \/ (rest = 5 /\ low % 2 = 1) THEN low + 1 ELSE low
        frac == hundredths % 100
    IN  (IF v < 0 THEN <<"-">> ELSE <<>>) \o FmtInt(hundredths \div 100) \o <<".">>
            \o <<Digits[(frac \div 10) + 1], Digits[(frac % 10) + 1]>>

RECURSIVE Replace(_, _, _)
\* str::replace(from, to) for a character `from`: every occurrence, left to
\* right
Replace(s, from, to) ==
    IF s = <<>> THEN <<>>
    ELSE (IF Head(s) = from THEN to ELSE <<Head(s)>>) \o Replace(Tail(s), from, to)

\* The mutation of EscapeXml that replaces the ampersand last.
EscapeXmlAmpLast(s) ==
    Replace(Replace(Replace(Replace(Replace(s, "<", <<"&", "l", "t", ";">>),
                                    ">", <<"&", "g", "t", ";">>),
                            "\"", <<"&", "q", "u", "o", "t", ";">>),
                    "'", <<"&", "a", "p", "o", "s", ";">>),
            "&", <<"&", "a", "m", "p", ";">>)

\* escape_xml: five replace passes over the whole string, the ampersand first
EscapeXml(s) ==
    Replace(Replace(Replace(Replace(Replace(s, "&", <<"&", "a", "m", "p", ";">>),
                                    "<", <<"&", "l", "t", ";">>),
                            ">", <<"&", "g", "t", ";">>),
                    "\"", <<"&", "q", "u", "o", "t", ";">>),
            "'", <<"&", "a", "p", "o", "s", ";">>)

\* A push_str of the serializer: the literal or the format string, and the
\* formatted arguments in order.  The output text is the concatenation of the
\* pieces, each with its arguments substituted.
Piece(fmt, args) == [fmt |-> fmt, args |-> args]

\* The mutation of AllSame that compares every radius with 0.
AllSameAsZero(arr) == \A i \in 1..4 : Abs(arr[i]) < 1

\* all_same: every radius within 0.001 of the first
AllSame(arr) == \A i \in 1..4 : Abs(arr[i] - arr[1]) < 1

\* border_radius.iter().any(|&r| r > 0.0)
HasRadius(border_radius) == \E i \in 1..4 : border_radius[i] > 0

\* rounded_rect_path: the 26 numbers of the path, radii clamped to the rect
RoundedRectPath(rect, radii) ==
    LET x == rect.x
        y == rect.y
        w == rect.width
        h == rect.height
        max_radius == Min(w \div 2, h \div 2)
        tl == Min(radii[1], max_radius)
        tr == Min(radii[2], max_radius)
        br == Min(radii[3], max_radius)
        bl == Min(radii[4], max_radius)
        nums == <<x + tl, y, x + w - tr, y, x + w, y, x + w, y + tr, x + w, y + h - br,
                  x + w, y + h, x + w - br, y + h, x + bl, y + h, x, y + h, x, y + h - bl,
                  x, y + tl, x, y, x + tl, y>>
    IN  [i \in 1..26 |-> Fmt2(nums[i])]

\* The mutation of SvgBuilderNew that keeps the counter of the serializer
\* that ran before.
SvgBuilderKeepCounter(width, height) ==
    [output |-> <<Piece("<?xml version=\"1.0\" encoding=\"UTF-8\"?>\n", <<>>),
                  Piece("<svg xmlns xmlns:xlink width=\"{:.p$}\" height=\"{:.p$}\" viewBox=\"0 0 {:.p$} {:.p$}\">",
                        <<Fmt2(width), Fmt2(height), Fmt2(width), Fmt2(height)>>)>>,
     clip_id_counter |-> clip_id_counter]

\* SvgBuilder::new with SvgOptions::default(): the XML declaration, the <svg>
\* root, and the clip id counter at 0
SvgBuilderNew(width, height) ==
    [output |-> <<Piece("<?xml version=\"1.0\" encoding=\"UTF-8\"?>\n", <<>>),
                  Piece("<svg xmlns xmlns:xlink width=\"{:.p$}\" height=\"{:.p$}\" viewBox=\"0 0 {:.p$} {:.p$}\">",
                        <<Fmt2(width), Fmt2(height), Fmt2(width), Fmt2(height)>>)>>,
     clip_id_counter |-> 0]

\* self.output.push_str(..)
Push(builder, piece) == [builder EXCEPT !.output = Append(@, piece)]

RectArgs(rect) == <<Fmt2(rect.x), Fmt2(rect.y), Fmt2(rect.width), Fmt2(rect.height)>>

\* render_fill_rect
RenderFillRect(builder, rect, color, border_radius) ==
    IF color.a = 0 THEN builder
    ELSE IF HasRadius(border_radius) /\ ~AllSame(border_radius)
    THEN Push(builder, Piece("<path d=\"{}\" fill=\"{}\"/>",
                             RoundedRectPath(rect, border_radius) \o <<ToCss(color)>>))
    ELSE IF HasRadius(border_radius)
    THEN Push(builder, Piece("<rect x y width height rx=\"{:.p$}\" fill=\"{}\"/>",
                             RectArgs(rect) \o <<Fmt2(border_radius[1]), ToCss(color)>>))
    ELSE Push(builder, Piece("<rect x y width height fill=\"{}\"/>",
                             RectArgs(rect) \o <<ToCss(color)>>))

\* The mutation of RenderStrokeRect that strokes the rect as it is given.
RenderStrokeRectNoInset(builder, rect, color, stroke_width, border_radius) ==
    IF color.a = 0 \/ stroke_width <= 0 THEN builder
    ELSE IF HasRadius(border_radius) /\ ~AllSame(border_radius)
    THEN Push(builder, Piece("<path d=\"{}\" fill=\"none\" stroke=\"{}\" stroke-width=\"{:.p$}\"/>",
                             RoundedRectPath(rect, border_radius)
                                 \o <<ToCss(color), Fmt2(stroke_width)>>))
    ELSE IF HasRadius(border_radius)
    THEN Push(builder, Piece("<rect x y width height rx=\"{:.p$}\" fill=\"none\" stroke=\"{}\" stroke-width=\"{:.p$}\"/>",
                             RectArgs(rect)
                                 \o <<Fmt2(border_radius[1]), ToCss(color), Fmt2(stroke_width)>>))
    ELSE Push(builder, Piece("<rect x y width height fill=\"none\" stroke=\"{}\" stroke-width=\"{:.p$}\"/>",
                             RectArgs(rect) \o <<ToCss(color), Fmt2(stroke_width)>>))

\* render_stroke_rect
RenderStrokeRect(builder, rect, color, stroke_width, border_radius) ==
    LET inset == stroke_width \div 2
        inner_rect == Rect(rect.x + inset, rect.y + inset, rect.width - stroke_width,
                           rect.height - stroke_width)
    IN  IF color.a = 0 \/ stroke_width <= 0 THEN builder
        ELSE IF HasRadius(border_radius) /\ ~AllSame(border_radius)
        THEN Push(builder, Piece("<path d=\"{}\" fill=\"none\" stroke=\"{}\" stroke-width=\"{:.p$}\"/>",
                                 RoundedRectPath(inner_rect, border_radius)
                                     \o <<ToCss(color), Fmt2(stroke_width)>>))
        ELSE IF HasRadius(border_radius)
        THEN Push(builder, Piece("<rect x y width height rx=\"{:.p$}\" fill=\"none\" stroke=\"{}\" stroke-width=\"{:.p$}\"/>",
                                 RectArgs(inner_rect)
                                     \o <<Fmt2(border_radius[1]), ToCss(color), Fmt2(stroke_width)>>))
        ELSE Push(builder, Piece("<rect x y width height fill=\"none\" stroke=\"{}\" stroke-width=\"{:.p$}\"/>",
                                 RectArgs(inner_rect) \o <<ToCss(color), Fmt2(stroke_width)>>))

RECURSIVE PushTspansReversed(_, _)
\* The mutation of PushTspans that writes the last line first.
PushTspansReversed(builder, lines) ==
    IF lines = <<>> THEN builder
    ELSE Push(PushTspansReversed(builder, Tail(lines)),
              Piece("<tspan x=\"{:.p$}\" y=\"{:.p$}\">{}</tspan>",
                    <<Fmt2(Head(lines).x), Fmt2(Head(lines).y), EscapeXml(Head(lines).text)>>))

RECURSIVE PushTspans(_, _)
\* render_text, the loop over the lines of a multi-line text
PushTspans(builder, lines) ==
    IF lines = <<>> THEN builder
    ELSE PushTspans(Push(builder, Piece("<tspan x=\"{:.p$}\" y=\"{:.p$}\">{}</tspan>",
                                        <<Fmt2(Head(lines).x), Fmt2(Head(lines).y),
                                          EscapeXml(Head(lines).text)>>)),
                    Tail(lines))

\* render_text
RenderText(builder, font_family, font_size, font_weight, color, lines) ==
    IF lines = <<>> THEN builder
    ELSE IF Len(lines) = 1
    THEN Push(builder, Piece("<text x=\"{:.p$}\" y=\"{:.p$}\" fill=\"{}\" font-family=\"{}\" font-size=\"{:.p$}\" font-weight=\"{}\">{}</text>",
                             <<Fmt2(lines[1].x), Fmt2(lines[1].y), ToCss(color),
                               EscapeXml(font_family), Fmt2(font_size), FmtInt(font_weight),
                               EscapeXml(lines[1].text)>>))
    ELSE Push(PushTspans(Push(builder, Piece("<text fill=\"{}\" font-family=\"{}\" font-size=\"{:.p$}\" font-weight=\"{}\">",
                                             <<ToCss(color), EscapeXml(font_family),
                                               Fmt2(font_size), FmtInt(font_weight)>>)),
                         lines),
              Piece("</text>", <<>>))

\* render_image
RenderImage(builder, rect, src, border_radius) ==
    IF HasRadius(border_radius)
    THEN LET clip_id == builder.clip_id_counter
             counted == [builder EXCEPT !.clip_id_counter = @ + 1]
             opened == Push(Push(counted, Piece("<defs>", <<>>)),
                            Piece("<clipPath id=\"img-clip-{}\">", <<FmtInt(clip_id)>>))
             shaped == IF AllSame(border_radius)
                       THEN Push(opened, Piece("<rect x y width height rx=\"{:.p$}\"/>",
                                               RectArgs(rect) \o <<Fmt2(border_radius[1])>>))
                       ELSE Push(opened, Piece("<path d=\"{}\"/>",
                                               RoundedRectPath(rect, border_radius)))
         IN  Push(Push(shaped, Piece("</clipPath></defs>", <<>>)),
                  Piece("<image x y width height xlink:href=\"{}\" clip-path=\"url(#img-clip-{})\"/>",
                        RectArgs(rect) \o <<EscapeXml(src), FmtInt(clip_id)>>))
    ELSE Push(builder, Piece("<image x y width height xlink:href=\"{}\"/>",
                             RectArgs(rect) \o <<EscapeXml(src)>>))

\* The mutation of PushClip that leaves the counter as it is.
PushClipSameId(builder, rect, border_radius) ==
    LET clip_id == builder.clip_id_counter
        opened == Push(Push(builder, Piece("<defs>", <<>>)),
                       Piece("<clipPath id=\"clip-{}\">", <<FmtInt(clip_id)>>))
        shaped == Push(opened, Piece("<rect x y width height/>", RectArgs(rect)))
    IN  Push(Push(shaped, Piece("</clipPath></defs>", <<>>)),
             Piece("<g clip-path=\"url(#clip-{})\">", <<FmtInt(clip_id)>>))

\* push_clip
PushClip(builder, rect, border_radius) ==
    LET clip_id == builder.clip_id_counter
        counted == [builder EXCEPT !.clip_id_counter = @ + 1]
        opened == Push(Push(counted, Piece("<defs>", <<>>)),
                       Piece("<clipPath id=\"clip-{}\">", <<FmtInt(clip_id)>>))
        shaped == IF HasRadius(border_radius) /\ AllSame(border_radius)
                  THEN Push(opened, Piece("<rect x y width height rx=\"{:.p$}\"/>",
                                          RectArgs(rect) \o <<Fmt2(border_radius[1])>>))
                  ELSE IF HasRadius(border_radius)
                  THEN Push(opened, Piece("<path d=\"{}\"/>",
                                          RoundedRectPath(rect, border_radius)))
                  ELSE Push(opened, Piece("<rect x y width height/>", RectArgs(rect)))
    IN  Push(Push(shaped, Piece("</clipPath></defs>", <<>>)),
             Piece("<g clip-path=\"url(#clip-{})\">", <<FmtInt(clip_id)>>))

\* The mutation of RenderCommand whose PopClip writes nothing.
RenderCommandSilentPopClip(builder, cmd) ==
    CASE cmd.kind = "FillRect" -> RenderFillRect(builder, cmd.rect, cmd.color, cmd.border_radius)
      [] cmd.kind = "StrokeRect" ->
             RenderStrokeRect(builder, cmd.rect, cmd.color, cmd.width, cmd.border_radius)
      [] cmd.kind = "Text" ->
             RenderText(builder, cmd.font_family, cmd.font_size, cmd.font_weight, cmd.color,
                        cmd.lines)
      [] cmd.kind = "Image" -> RenderImage(builder, cmd.rect, cmd.src, cmd.border_radius)
      [] cmd.kind = "PushClip" -> PushClip(builder, cmd.rect, cmd.border_radius)
      [] cmd.kind = "PopClip" -> builder
      [] cmd.kind = "PushOpacity" ->
             Push(builder, Piece("<g opacity=\"{:.2}\">", <<Fmt2(cmd.opacity)>>))
      [] cmd.kind = "PopOpacity" -> Push(builder, Piece("</g>", <<>>))

\* render_command
RenderCommand(builder, cmd) ==
    CASE cmd.kind = "FillRect" -> RenderFillRect(builder, cmd.rect, cmd.color, cmd.border_radius)
      [] cmd.kind = "StrokeRect" ->
             RenderStrokeRect(builder, cmd.rect, cmd.color, cmd.width, cmd.border_radius)
      [] cmd.kind = "Text" ->
             RenderText(builder, cmd.font_family, cmd.font_size, cmd.font_weight, cmd.color,
                        cmd.lines)
      [] cmd.kind = "Image" -> RenderImage(builder, cmd.rect, cmd.src, cmd.border_radius)
      [] cmd.kind = "PushClip" -> PushClip(builder, cmd.rect, cmd.border_radius)
      [] cmd.kind = "PopClip" -> Push(builder, Piece("</g>", <<>>))
      [] cmd.kind = "PushOpacity" ->
             Push(builder, Piece("<g opacity=\"{:.2}\">", <<Fmt2(cmd.opacity)>>))
      [] cmd.kind = "PopOpacity" -> Push(builder, Piece("</g>", <<>>))

RECURSIVE RenderCommands(_, _)
\* generate_svg, the loop over tree.commands
RenderCommands(builder, commands) ==
    IF commands = <<>> THEN builder
    ELSE RenderCommands(RenderCommand(builder, Head(commands)), Tail(commands))

\* generate_svg: the builder after finish(), whose output is the SVG text
GenerateSvg(tree) ==
    Push(RenderCommands(SvgBuilderNew(tree.width, tree.height), tree.commands),
         Piece("</svg>", <<>>))

\* ------------------------------------------------------------------------
\* Inputs of the pure functions
\* ------------------------------------------------------------------------

RECURSIVE SeqsOfLen(_, _)
\* The sequences of exactly n elements of S.
SeqsOfLen(S, n) ==
    IF n = 0 THEN {<<>>}
    ELSE {Append(q, x) : q \in SeqsOfLen(S, n - 1), x \in S}

\* The sequences of at most n elements of S.
SeqsUpTo(S, n) == UNION {SeqsOfLen(S, k) : k \in 0..n}

\* Characters after a "#": hex digits of both cases, a non-digit, a sign and
\* the two-byte character.
HexAlphabet == {"0", "8", "f", "A", "g", "+", "U+00E9"}

\* Two-byte units after a "#": digit pairs, signed digits, a non-digit pair
\* and the two-byte character.
HexPairAlphabet ==
    {<<"0", "0">>, <<"f", "f">>, <<"7", "F">>, <<"+", "f">>, <<"-", "1">>, <<"g", "0">>,
     <<"U+00E9">>}

HexStrings ==
    {<<"#">> \o w : w \in SeqsUpTo(HexAlphabet, MaxHexLen)}
    \cup {<<"#">> \o Concat(w) : w \in SeqsOfLen(HexPairAlphabet, 3) \cup SeqsOfLen(HexPairAlphabet, 4)}

\* Texts of the r, g, b components: in range, out of range, padded, signed,
\* not a number.
U8Texts == {<<"0">>, <<"2", "5", "5">>, <<"2", "5", "6">>, <<" ", "7">>, <<"+", "9">>, <<"x">>}

\* Texts of the alpha component.
AlphaTexts ==
    {<<"0", ".", "5">>, <<"1">>, <<"0">>, <<"0", ".", "0", "0", "4">>, <<"0", ".", "2">>,
     <<"2">>, <<"-", "0", ".", "5">>, <<"x">>, <<".", "2", "5">>}

RgbComponentLists ==
    SeqsOfLen(U8Texts, 2) \cup SeqsOfLen(U8Texts, 3)
    \cup {t \o <<a>> : t \in SeqsOfLen(U8Texts, 3), a \in AlphaTexts}
    \cup {t \o <<a, <<"9">>>> : t \in SeqsOfLen({<<"0">>, <<"2", "5", "5">>}, 3), a \in AlphaTexts}

RgbStrings ==
    {pre \o open \o Join(cs, <<",">>) \o close :
        pre \in {<<"r", "g", "b">>, <<"r", "g", "b", "a">>},
        open \in {<<"(">>, <<>>},
        cs \in RgbComponentLists,
        close \in {<<")">>, <<>>}}

NamedStrings ==
    {<<"t", "r", "a", "n", "s", "p", "a", "r", "e", "n", "t">>, <<"b", "l", "a", "c", "k">>,
     <<"w", "h", "i", "t", "e">>, <<"r", "e", "d">>, <<"g", "r", "e", "e", "n">>,
     <<"b", "l", "u", "e">>, <<"R", "e", "d">>, <<"B", "L", "U", "E">>, <<" ", "r", "e", "d", " ">>,
     <<"t", "e", "a", "l">>, <<"r", "e", "d", "d">>, <<>>, <<"n", "o", "n", "e">>}

\* Free-form colour strings: arg = [form |-> "free", str |-> s].
FreeColorInputs ==
    {[form |-> "free", str |-> s, fields |-> <<>>] :
        s \in HexStrings \cup RgbStrings \cup NamedStrings}

HexChar(d, upper) ==
    IF d < 10 THEN Digits[d + 1] ELSE IF upper THEN HexUpper[d - 9] ELSE HexLower[d - 9]

\* A byte as two hexadecimal digits of one case.
HexByte(n, upper) == <<HexChar(n \div 16, upper), HexChar(n % 16, upper)>>

\* A number of thousandths as a decimal literal with three decimals.
FmtMilli(n) ==
    DecDigits(n \div 1000) \o <<".">>
    \o <<Digits[((n % 1000) \div 100) + 1], Digits[((n \div 10) % 10) + 1], Digits[(n % 10) + 1]>>

\* The same literal without trailing zeros of the fraction.
FmtMilliShort(n) ==
    IF n % 1000 = 0 THEN DecDigits(n \div 1000)
    ELSE TrimEndMatchesChar(FmtMilli(n), "0")

\* Strings of the documented grammar, built from the values they denote:
\* fields holds the digits (hex3), the bytes (hex6, hex8), r, g, b (rgb) or
\* r, g, b and the alpha in thousandths, between 0 and 1 (rgba).
DocumentedColorInputs ==
    {[form |-> "hex3", fields |-> d,
      str |-> <<"#", HexChar(d[1], up), HexChar(d[2], up), HexChar(d[3], up)>>] :
        d \in SeqsOfLen({0, 8, 10, 15}, 3), up \in BOOLEAN}
    \cup {[form |-> "hex6", fields |-> d,
           str |-> <<"#">> \o HexByte(d[1], up) \o HexByte(d[2], up) \o HexByte(d[3], up)] :
        d \in SeqsOfLen({0, 16, 127, 255}, 3), up \in BOOLEAN}
    \cup {[form |-> "hex8", fields |-> d,
           str |-> <<"#">> \o HexByte(d[1], up) \o HexByte(d[2], up) \o HexByte(d[3], up)
                   \o HexByte(d[4], up)] :
        d \in SeqsOfLen({0, 128, 255}, 4), up \in BOOLEAN}
    \cup {[form |-> "rgb", fields |-> d,
           str |-> <<"r", "g", "b", "(">> \o FmtInt(d[1]) \o sep \o FmtInt(d[2]) \o sep
                   \o FmtInt(d[3]) \o <<")">>] :
        d \in SeqsOfLen({0, 7, 255}, 3), sep \in {<<",">>, <<",", " ">>}}
    \cup {[form |-> "rgba", fields |-> d \o <<a>>,
           str |-> <<"r", "g", "b", "a", "(">> \o FmtInt(d[1]) \o <<",">> \o FmtInt(d[2])
                   \o <<",">> \o FmtInt(d[3]) \o <<",", " ">>
                   \o (IF short THEN FmtMilliShort(a) ELSE FmtMilli(a)) \o <<")">>] :
        d \in SeqsOfLen({0, 255}, 3), a \in {0, 4, 200, 250, 500, 999, 1000},
        short \in BOOLEAN}

\* Colours fed to to_css: every alpha, components of one, two and three digits.
ColorValues ==
    {[form |-> "color", c |-> [r |-> r, g |-> g, b |-> b, a |-> a]] :
        r \in {0, 9, 128, 255}, g \in {0, 77}, b \in {5, 255}, a \in 0..255}

\* Tokens of a shorthand string: numbers and texts that are no number.
ShorthandTokens == {<<"1", "0">>, <<"2", "0">>, <<"0", ".", "5">>, <<"a", "b", "c">>}

\* Shorthand strings: up to MaxTokens tokens, joined by one space or, padded,
\* by two spaces with a leading and a trailing space.
ShorthandStrings ==
    {Join(ts, <<" ">>) : ts \in SeqsUpTo(ShorthandTokens, MaxTokens)}
    \cup {<<" ">> \o Join(ts, <<" ", " ">>) \o <<" ">> : ts \in SeqsUpTo(ShorthandTokens, MaxTokens)}

ShorthandValues ==
    {Multi(s) : s \in ShorthandStrings} \cup {Uniform(v) : v \in {0, 500, 10000}}

\* The state no compile call has touched
Untouched ==
    /\ trace = <<>>
    /\ element = None
    /\ text_engine = TextLayoutEngineNew
    /\ layout_result = [taffy |-> [nodes |-> <<>>, layouts |-> <<>>], root |-> 0, node_data |-> <<>>]
    /\ render_tree = [commands |-> <<>>, width |-> 0, height |-> 0]
    /\ svg = <<>>
    /\ clip_id_counter = 0
    /\ result = None
    /\ first = None

\* The pure-function specifications run no compile call.
NoCompile == input = None /\ call = 0 /\ pc = "idle" /\ Untouched

\* ------------------------------------------------------------------------
\* Specifications of the pure functions: Init draws the input, one action
\* applies the function (fn names what has been applied so far).
\* ------------------------------------------------------------------------

ParseColor ==
    /\ fn = "input"
    /\ arg.form # "color"
    /\ fn' = "Color::parse"
    /\ ret' = ColorParse(arg.str)
    /\ UNCHANGED <<arg, compile_vars>>

FormatColor ==
    /\ fn = "input"
    /\ arg.form = "color"
    /\ fn' = "Color::to_css"
    /\ ret' = ToCss(arg.c)
    /\ UNCHANGED <<arg, compile_vars>>

ReparseColor ==
    /\ fn = "Color::to_css"
    /\ fn' = "Color::parse(to_css)"
    /\ ret' = [css |-> ret, parsed |-> ColorParse(ret)]
    /\ UNCHANGED <<arg, compile_vars>>

InitColor ==
    /\ fn = "input"
    /\ arg \in FreeColorInputs \cup DocumentedColorInputs \cup ColorValues
    /\ ret = None
    /\ NoCompile

NextColor == ParseColor \/ FormatColor \/ ReparseColor

SpecColor == InitColor /\ [][NextColor]_vars

SpacingToEdges ==
    /\ fn = "input"
    /\ fn' = "Spacing::to_edges"
    /\ ret' = ToEdges(arg)
    /\ UNCHANGED <<arg, compile_vars>>

BorderRadiusToCorners ==
    /\ fn = "input"
    /\ fn' = "BorderRadius::to_corners"
    /\ ret' = ToCorners(arg)
    /\ UNCHANGED <<arg, compile_vars>>

InitShorthand ==
    /\ fn = "input"
    /\ arg \in ShorthandValues
    /\ ret = None
    /\ NoCompile

NextShorthand == SpacingToEdges \/ BorderRadiusToCorners

SpecShorthand == InitShorthand /\ [][NextShorthand]_vars

\* ------------------------------------------------------------------------
\* Inputs of compile and compile_document
\* ------------------------------------------------------------------------

Red == <<"#", "f", "0", "0">>

Blue == <<"#", "0", "0", "0", "0", "f", "f", "8", "0">>

TextAB == JsonText(<<"a", " ", "b">>, NoStyle)

TextHi ==
    JsonText(<<"h", "i", "<">>,
             [NoStyle EXCEPT !.color = Some(Red), !.fontSize = Some(10000),
                             !.lineHeight = Some(1500)])

ImageClipped ==
    JsonImage(<<"i", ".", "p", "n", "g">>, 40000, 30000,
              [NoStyle EXCEPT !.borderRadius = Some(Uniform(4000)), !.opacity = Some(500)])

ImagePlain == JsonImage(<<"a", "&", "b">>, 20000, 20000, NoStyle)

BoxFaded ==
    JsonBox([NoStyle EXCEPT !.backgroundColor = Some(Blue), !.height = Some(10000),
                            !.opacity = Some(500)],
            <<ImageClipped>>)

FlexHidden == JsonFlex([NoStyle EXCEPT !.display = Some("none"), !.opacity = Some(200)], <<TextAB>>)

BoxDeep ==
    JsonBox([NoStyle EXCEPT !.borderWidth = Some(1000), !.borderColor = Some(Red),
                            !.borderRadius = Some(Multi(<<"4", " ", "8">>))],
            <<JsonFlex([NoStyle EXCEPT !.opacity = Some(800), !.margin = Some(Uniform(2000))],
                       <<TextAB, ImageClipped>>)>>)

\* The root of the end-to-end example: a box 200 by 100 filled red
BoxSized ==
    JsonBox([NoStyle EXCEPT !.width = Some(200000), !.height = Some(100000),
                            !.backgroundColor = Some(<<"#", "f", "f", "0", "0", "0", "0">>)],
            <<>>)

\* A text of one space, and a text without content
TextBlank == JsonText(<<" ">>, NoStyle)

TextEmpty == JsonText(<<>>, NoStyle)

\* The elements a root of the model has as children
Kids == {TextAB, TextHi, ImageClipped, ImagePlain, BoxFaded, FlexHidden, BoxDeep}

RootPlain == NoStyle

RootPadded ==
    [NoStyle EXCEPT !.width = Some(200000), !.padding = Some(Multi(<<"1", "0", " ", "2", "0">>)),
                    !.backgroundColor = Some(<<"w", "h", "i", "t", "e">>)]

RootColumn ==
    [NoStyle EXCEPT !.flexDirection = Some("column"), !.opacity = Some(500),
                    !.borderWidth = Some(2000), !.borderColor = Some(Blue)]

RootNarrow == [NoStyle EXCEPT !.width = Some(20000)]

\* A background without alpha and a border without width
RootClear ==
    [NoStyle EXCEPT !.backgroundColor = Some(<<"t", "r", "a", "n", "s", "p", "a", "r", "e", "n", "t">>),
                    !.borderWidth = Some(0), !.borderColor = Some(Red)]

\* A border of 3 with equal corner radii
RootRounded ==
    [NoStyle EXCEPT !.borderWidth = Some(3000), !.borderColor = Some(Red),
                    !.borderRadius = Some(Uniform(4000))]

\* The styles a root of the model has
RootStyles == {RootPlain, RootPadded, RootColumn, RootNarrow, RootClear, RootRounded}

\* Documents that compile: a box or a flex root over up to MaxChildren
\* children, and the leaves alone
GoodContents ==
    {JsonBox(st, kids) : st \in RootStyles, kids \in SeqsUpTo(Kids, MaxChildren)}
        \cup {JsonFlex(st, kids) : st \in RootStyles, kids \in SeqsUpTo(Kids, MaxChildren)}
        \cup {TextAB, TextHi, ImageClipped, ImagePlain, BoxSized, TextBlank, TextEmpty,
              JsonBox(RootNarrow, <<TextBlank, TextEmpty>>)}

BadColor == <<"n", "o", "p", "e">>

ShortHex == <<"#", "1", "2">>

\* '#' and three bytes, the first two of them one character
SplitHex == <<"#", "U+00E9", "1">>

\* Elements serde rejects, each for one reason: the discriminator, a
\* required field, a colour, an enum value
RejectedContents ==
    {JsonElement(Some("circle"), None, None, None, None, NoStyle, <<>>),
     JsonElement(None, None, None, None, None, NoStyle, <<>>),
     JsonElement(Some("text"), None, None, None, None, NoStyle, <<>>),
     JsonElement(Some("image"), None, None, Some(10000), Some(10000), NoStyle, <<>>),
     JsonElement(Some("image"), Some(<<"i">>), None, None, Some(10000), NoStyle, <<>>),
     JsonElement(Some("image"), Some(<<"i">>), None, Some(10000), None, NoStyle, <<>>),
     JsonBox([NoStyle EXCEPT !.backgroundColor = Some(BadColor)], <<>>),
     JsonFlex([NoStyle EXCEPT !.borderColor = Some(ShortHex)], <<TextAB>>),
     JsonText(<<"a">>, [NoStyle EXCEPT !.color = Some(BadColor)]),
     JsonBox(NoStyle, <<TextAB, JsonText(<<"a">>, [NoStyle EXCEPT !.color = Some(ShortHex)])>>),
     JsonBox(NoStyle, <<JsonElement(Some("circle"), None, None, None, None, NoStyle, <<>>)>>),
     JsonBox([NoStyle EXCEPT !.display = Some("inline")], <<>>),
     JsonBox([NoStyle EXCEPT !.backgroundColor = Some(SplitHex)], <<>>),
     JsonFlex(NoStyle, <<JsonText(<<"a">>, [NoStyle EXCEPT !.color = Some(SplitHex)])>>)}

TenAbc == <<"1", "0", " ", "a", "b", "c">>

\* Elements with a shorthand that has a token which is not a number
LaxContents ==
    {JsonBox([NoStyle EXCEPT !.padding = Some(Multi(TenAbc)), !.backgroundColor = Some(Red)],
             <<TextAB>>),
     JsonFlex([NoStyle EXCEPT !.margin = Some(Multi(<<"a", "b", "c">>))], <<ImagePlain>>),
     JsonBox(NoStyle,
             <<JsonImage(<<"i">>, 10000, 10000,
                         [NoStyle EXCEPT !.borderRadius = Some(Multi(<<"4", " ", "x">>))])>>)}

\* CompileOptions::default(): width 800, no height, no fonts
DefaultOptions == [width |-> 800000, height |-> None, fonts |-> <<>>]

\* FontSource values: data that decodes (to bytes that are no font), data
\* that is not base64, and a font given by its url only
FontDecodable == [family |-> <<"F">>, data |-> Some(<<"A", "A", "A", "A">>)]

FontPadded == [family |-> <<"F">>, data |-> Some(<<"A", "A", "=", "=">>)]

FontUndecodable == [family |-> <<"F">>, data |-> Some(<<"!", "!", "!">>)]

FontByUrl == [family |-> <<"F">>, data |-> None]

OptionSets ==
    {[width |-> w, height |-> h, fonts |-> f] :
        w \in {800000, 30000}, h \in {None, Some(50000)},
        f \in {<<>>, <<FontDecodable>>, <<FontByUrl, FontPadded>>, <<FontUndecodable>>,
               <<FontDecodable, FontUndecodable>>}}

\* What the Taffy calls of this run answer: every call Ok, or a TaffyError
\* from the node constructors, or one from compute_layout_with_measure
TaffyAnswers == {"Ok", "NewNodeError", "ComputeError"}

Input(entry, json, content, options, taffy) ==
    [entry |-> entry, json |-> json, content |-> content, options |-> options, taffy |-> taffy]

Entries == {"compile", "compile_document"}

\* The calls of the model: every document at the default options, a few
\* documents at every combination of options and Taffy answers, text that
\* is not JSON, and a document object without `content`.
Inputs ==
    {Input(e, TRUE, Some(c), DefaultOptions, "Ok") :
        e \in Entries, c \in GoodContents \cup RejectedContents \cup LaxContents}
        \cup {Input(e, TRUE, Some(c), o, t) :
                e \in Entries, c \in {TextAB, JsonBox(NoStyle, <<TextAB, ImageClipped>>)},
                o \in OptionSets, t \in TaffyAnswers}
        \cup {Input(e, FALSE, None, DefaultOptions, "Ok") : e \in Entries}
        \cup {Input("compile_document", TRUE, None, DefaultOptions, "Ok")}

\* ------------------------------------------------------------------------
\* compile / compile_document, run twice on the same input
\* ------------------------------------------------------------------------

\* CompileError { message, kind }
CompileError(kind) == [tag |-> "Err", kind |-> kind]

Phases == <<"parse", "fonts", "build", "solve", "flatten", "serialize">>

Init ==
    /\ fn = "compile" /\ arg = None /\ ret = None
    /\ input \in Inputs
    /\ call = 1
    /\ pc = "start"
    /\ Untouched

\* serde_json::from_str and its map_err, common to both entry points: the
\* call goes on with the element, or returns the parse_error of map_err, or
\* has been aborted.  element holds what from_str gave.
ParseStep ==
    /\ pc = "start"
    /\ trace' = <<"parse">>
    /\ element' = ParseInput(input)
    /\ pc' = (IF element'.tag = "Ok" THEN "parsed"
              ELSE IF element'.tag = "Err" THEN "returned" ELSE "panicked")
    /\ result' = (IF element'.tag = "Ok" THEN result
                  ELSE IF element'.tag = "Err" THEN CompileError("parse_error") ELSE Panic)
    /\ UNCHANGED <<pure_vars, input, call, text_engine, layout_result, render_tree, svg,
                   clip_id_counter, first>>

\* compile: parse the element tree
Compile == input.entry = "compile" /\ ParseStep

\* compile_document: parse the document
CompileDocument == input.entry = "compile_document" /\ ParseStep

\* compile_element: a fresh LayoutEngine, then the fonts
DecodeFonts ==
    LET registered == RegisterFonts(input.options.fonts, TextLayoutEngineNew)
    IN  /\ pc = "parsed"
        /\ trace' = Append(trace, "fonts")
        /\ IF registered.tag = "Ok"
           THEN text_engine' = registered.val /\ pc' = "fonts" /\ result' = result
           ELSE text_engine' = text_engine /\ pc' = "returned"
                /\ result' = CompileError("font_error")
        /\ UNCHANGED <<pure_vars, input, call, element, layout_result, render_tree, svg,
                       clip_id_counter, first>>

\* The tree, the root and the node data of a LayoutResult, not yet solved
Unsolved(built) ==
    [taffy |-> [nodes |-> built.tree.nodes, layouts |-> <<>>], root |-> built.id,
     node_data |-> built.tree.node_data]

\* compute_layout: a fresh TaffyTree and node_data, then build_node
BuildTree ==
    /\ pc = "fonts"
    /\ trace' = Append(trace, "build")
    /\ IF input.taffy = "NewNodeError"
       THEN layout_result' = layout_result /\ pc' = "returned"
            /\ result' = CompileError("layout_error")
       ELSE /\ layout_result' = Unsolved(BuildNode(TaffyNew, element.val))
            /\ pc' = "built"
            /\ result' = result
    /\ UNCHANGED <<pure_vars, input, call, element, text_engine, render_tree, svg,
                   clip_id_counter, first>>

\* The mutation of Solve whose measurement callback writes through its
\* context: every leaf context is left holding a zero size.
SolveWritingContexts ==
    /\ pc = "built"
    /\ trace' = Append(trace, "solve")
    /\ layout_result' =
           [layout_result EXCEPT
               !.taffy.layouts =
                   ComputeLayoutWithMeasure(layout_result.taffy, text_engine, layout_result.root,
                                            input.options.width, input.options.height),
               !.taffy.nodes =
                   [id \in DOMAIN @ |->
                       IF @[id].context = None THEN @[id]
                       ELSE [@[id] EXCEPT !.context = [kind |-> "Image", width |-> 0,
                                                       height |-> 0]]]]
    /\ pc' = "solved"
    /\ result' = result
    /\ UNCHANGED <<pure_vars, input, call, element, text_engine, render_tree, svg,
                   clip_id_counter, first>>

\* compute_layout: taffy.compute_layout_with_measure and the LayoutResult
Solve ==
    /\ pc = "built"
    /\ trace' = Append(trace, "solve")
    /\ IF input.taffy = "ComputeError"
       THEN layout_result' = layout_result /\ pc' = "returned" /\ result' = CompileError("layout_error")
       ELSE /\ layout_result' = [layout_result EXCEPT !.taffy.layouts =
                              ComputeLayoutWithMeasure(layout_result.taffy, text_engine, layout_result.root,
                                                       input.options.width,
                                                       input.options.height)]
            /\ pc' = "solved"
            /\ result' = result
    /\ UNCHANGED <<pure_vars, input, call, element, text_engine, render_tree, svg,
                   clip_id_counter, first>>

\* render::build_render_tree
Flatten ==
    /\ pc = "solved"
    /\ trace' = Append(trace, "flatten")
    /\ render_tree' = BuildRenderTree(layout_result, text_engine)
    /\ pc' = "flattened"
    /\ UNCHANGED <<pure_vars, input, call, element, text_engine, layout_result, svg, clip_id_counter,
                   result, first>>

\* svg::generate_svg
Serialize ==
    LET builder == GenerateSvg(render_tree)
    IN  /\ pc = "flattened"
        /\ trace' = Append(trace, "serialize")
        /\ svg' = builder.output
        /\ clip_id_counter' = builder.clip_id_counter
        /\ pc' = "serialized"
        /\ UNCHANGED <<pure_vars, input, call, element, text_engine, layout_result, render_tree,
                       result, first>>

\* compile_element: Ok(CompileResult { svg, width, height, warnings })
ReturnOk ==
    /\ pc = "serialized"
    /\ result' = [tag |-> "Ok", svg |-> svg, width |-> render_tree.width,
                  height |-> render_tree.height, warnings |-> <<>>]
    /\ pc' = "returned"
    /\ UNCHANGED <<pure_vars, input, call, trace, element, text_engine, layout_result, render_tree,
                   svg, clip_id_counter, first>>

\* The caller compiles the same input with the same options again.  What the
\* first call left behind stays where it is: only the constructors the second
\* call runs replace it.
CompileAgain ==
    /\ pc = "returned"
    /\ call = 1
    /\ call' = 2
    /\ first' = result
    /\ result' = None
    /\ trace' = <<>>
    /\ pc' = "start"
    /\ UNCHANGED <<pure_vars, input, element, text_engine, layout_result, render_tree, svg,
                   clip_id_counter>>

Next ==
    \/ Compile
    \/ CompileDocument
    \/ DecodeFonts
    \/ BuildTree
    \/ Solve
    \/ Flatten
    \/ Serialize
    \/ ReturnOk
    \/ CompileAgain

Spec == Init /\ [][Next]_vars

\* ------------------------------------------------------------------------
\* Claims about compile and compile_document (specification Spec)
\* ------------------------------------------------------------------------

RECURSIVE ClipIdsOf(_)
\* The ids of the clipPath definitions of an output, in order
ClipIdsOf(output) ==
    IF output = <<>> THEN <<>>
    ELSE (IF Head(output).fmt \in {"<clipPath id=\"img-clip-{}\">", "<clipPath id=\"clip-{}\">"}
          THEN <<Head(output).args[1]>> ELSE <<>>) \o ClipIdsOf(Tail(output))

\* C1: compiling the same input with the same options a second time returns
\* exactly what the first call returned (the same SVG text, width and height,
\* or the same error), and in every serialization the clip-path ids are
\* 0, 1, 2, ... from 0, whatever an earlier call left behind.
C1_SecondCallIdentical ==
    /\ (call = 2 /\ pc = "returned") => result = first
    /\ ClipIdsOf(svg) = [i \in 1..Len(ClipIdsOf(svg)) |-> FmtInt(i - 1)]
    /\ pc = "serialized" => clip_id_counter = Len(ClipIdsOf(svg))

\* The second call has returned an SVG with two clipped images.
C1_Witness ==
    /\ call = 2
    /\ pc = "returned"
    /\ result.tag = "Ok"
    /\ first.tag = "Ok"
    /\ ClipIdsOf(result.svg) = <<(<<"0">>), (<<"1">>)>>

RECURSIVE Balanced(_, _)
\* The commands keep the stack discipline from the stack of open pushes
\* `open` (most recent first) and leave it empty.
Balanced(commands, open) ==
    IF commands = <<>> THEN open = <<>>
    ELSE LET cmd == Head(commands)
         IN  IF cmd.kind \in {"PushClip", "PushOpacity"}
             THEN Balanced(Tail(commands), <<cmd.kind>> \o open)
             ELSE IF cmd.kind \in {"PopClip", "PopOpacity"}
             THEN /\ open # <<>>
                  /\ Head(open) = (IF cmd.kind = "PopClip" THEN "PushClip" ELSE "PushOpacity")
                  /\ Balanced(Tail(commands), Tail(open))
             ELSE Balanced(Tail(commands), open)

RECURSIVE MaxDepth(_, _)
\* The largest stack depth over the prefixes of the commands, from depth d
MaxDepth(commands, d) ==
    IF commands = <<>> THEN d
    ELSE IF Head(commands).kind \in {"PushClip", "PushOpacity"}
    THEN Max(d + 1, MaxDepth(Tail(commands), d + 1))
    ELSE IF Head(commands).kind \in {"PopClip", "PopOpacity"}
    THEN MaxDepth(Tail(commands), d - 1)
    ELSE Max(d, MaxDepth(Tail(commands), d))

\* C2: in the command stream of build_render_tree the stack depth is never
\* negative at a prefix and is 0 at the end, and every Pop closes the most
\* recently opened unclosed Push of its kind.
C2_PushPopBalanced == Balanced(render_tree.commands, <<>>)

\* A stream with three opacity groups inside one another and with commands of
\* nodes that open no group.
C2_Witness ==
    /\ pc = "flattened"
    /\ MaxDepth(render_tree.commands, 0) >= 3
    /\ render_tree.commands[1].kind = "PushOpacity"
    /\ \E i \in 1..Len(render_tree.commands) : render_tree.commands[i].kind = "Text"

\* s is a prefix of t
IsPrefix(s, t) == Len(s) <= Len(t) /\ s = SubSeq(t, 1, Len(s))

\* A base64 payload of the standard alphabet with canonical padding
IsBase64(data) ==
    /\ Len(data) % 4 = 0
    /\ \A i \in 1..Len(data) :
           \/ data[i] \in Base64Alphabet
           \/ data[i] = "=" /\ i > Len(data) - 2 /\ \A j \in i..Len(data) : data[j] = "="

\* Some font of the options has a payload that is not base64.
HasInvalidFont(fonts) ==
    \E i \in 1..Len(fonts) : fonts[i].data # None /\ ~IsBase64(fonts[i].data.val)

\* The number of phases a call at pc has run
PhasesRun ==
    CASE pc = "start" -> 0
      [] pc \in {"parsed", "panicked"} -> 1
      [] pc = "fonts" -> 2
      [] pc = "built" -> 3
      [] pc = "solved" -> 4
      [] pc = "flattened" -> 5
      [] pc = "serialized" -> 6
      [] OTHER -> Len(trace)

ColorFields(je) ==
    IF je.type = Some("text") THEN <<je.style.color>>
    ELSE IF je.type \in {Some("box"), Some("flex")}
    THEN <<je.style.backgroundColor, je.style.borderColor>>
    ELSE <<>>

RECURSIVE Malformed(_)
\* An element, or one of its descendants, has a discriminator that is not
\* box, flex, text or image, or misses a required field, or has a colour
\* string for which Color::parse gives no colour.
Malformed(je) ==
    \/ je.type \notin {Some("box"), Some("flex"), Some("text"), Some("image")}
    \/ je.type = Some("text") /\ je.content = None
    \/ je.type = Some("image") /\ (je.src = None \/ je.width = None \/ je.height = None)
    \/ \E i \in 1..Len(ColorFields(je)) :
           ColorFields(je)[i] # None /\ ColorParse(ColorFields(je)[i].val).tag # "Some"
    \/ je.type \in {Some("box"), Some("flex")}
           /\ \E i \in 1..Len(je.children) : Malformed(je.children[i])

\* C4: a call on text that is not JSON, or on a document with an unknown
\* discriminator, a missing required field or a colour string that does not
\* parse, returns parse_error after the parse and writes no SVG.
C4_RejectedIsParseError ==
    (pc # "start" /\ (~input.json \/ input.content = None \/ Malformed(input.content.val)))
        => (pc = "returned" /\ result = CompileError("parse_error") /\ svg = <<>>)

\* The shorthand has a token that is not a number.
LaxShorthand(field) ==
    /\ field # None
    /\ field.val.kind = "Multi"
    /\ \E i \in 1..Len(SplitWhitespace(field.val.s)) :
           ParseF32(SplitWhitespace(field.val.s)[i]).tag # "Some"

RECURSIVE HasLaxShorthand(_)
\* An element or one of its descendants has such a margin, padding or
\* borderRadius among the fields its style declares.
HasLaxShorthand(je) ==
    \/ je.type \in {Some("box"), Some("flex")}
           /\ (LaxShorthand(je.style.margin) \/ LaxShorthand(je.style.padding)
                   \/ LaxShorthand(je.style.borderRadius))
    \/ je.type = Some("image")
           /\ (LaxShorthand(je.style.margin) \/ LaxShorthand(je.style.borderRadius))
    \/ je.type \in {Some("box"), Some("flex")}
           /\ \E i \in 1..Len(je.children) : HasLaxShorthand(je.children[i])

\* C5: a call on a document with a margin, padding or borderRadius string
\* that has a token which is not a number returns parse_error.
C5_LaxShorthandIsParseError ==
    (pc # "start" /\ input.json /\ input.content # None
         /\ ~Malformed(input.content.val) /\ HasLaxShorthand(input.content.val))
        => (pc = "returned" /\ result = CompileError("parse_error"))

\* ------------------------------------------------------------------------
\* Claims about Color (specification SpecColor)
\* ------------------------------------------------------------------------

AllHexDigits(s) == \A i \in 1..Len(s) : HexDigitVal(s[i]) >= 0

\* A decimal integer literal of a u8: digits only, at most 255.
IsU8Literal(s) == s # <<>> /\ (\A i \in 1..Len(s) : IsDigit(s[i])) /\ DigitsValue(s, 10, 0) <= 255

\* A decimal literal: digits with at most one ".", at least one digit.
IsDecimalLiteral(s) ==
    /\ \A i \in 1..Len(s) : IsDigit(s[i]) \/ s[i] = "."
    /\ Cardinality({i \in 1..Len(s) : s[i] = "."}) <= 1
    /\ \E i \in 1..Len(s) : IsDigit(s[i])

\* The components of name(c1,c2,..), each trimmed, or <<>> when the string
\* is not of that shape.
CallComponents(s, name) ==
    IF StartsWith(s, name \o <<"(">>) /\ s[Len(s)] = ")"
    THEN LET raw == SplitChar(SubSeq(s, Len(name) + 2, Len(s) - 1), ",")
         IN  [i \in 1..Len(raw) |-> Trim(raw[i])]
    ELSE <<>>

\* The grammar the specification documents, read generously (surrounding
\* blanks and any letter case of the names allowed).
DocumentedColor(str) ==
    LET s == Trim(str)
        rgb == CallComponents(s, <<"r", "g", "b">>)
        rgba == CallComponents(s, <<"r", "g", "b", "a">>)
    IN  \/ /\ s # <<>>
           /\ s[1] = "#"
           /\ Len(s) \in {4, 7, 9}
           /\ AllHexDigits(Tail(s))
        \/ Len(rgb) = 3 /\ \A i \in 1..3 : IsU8Literal(rgb[i])
        \/ Len(rgba) = 4 /\ (\A i \in 1..3 : IsU8Literal(rgba[i])) /\ IsDecimalLiteral(rgba[4])
        \/ ToLowercase(s) \in
              {<<"t", "r", "a", "n", "s", "p", "a", "r", "e", "n", "t">>, <<"b", "l", "a", "c", "k">>,
               <<"w", "h", "i", "t", "e">>, <<"r", "e", "d">>, <<"g", "r", "e", "e", "n">>,
               <<"b", "l", "u", "e">>}

\* C6: Color.parse accepts only the documented grammar: for every string
\* that is not #RGB, #RRGGBB, #RRGGBBAA with hexadecimal digits, nor a
\* well-formed rgb(r,g,b) or rgba(r,g,b,a), nor a named colour, parse does
\* not return a colour.
C6_OnlyDocumentedGrammar ==
    (fn = "Color::parse" /\ ~DocumentedColor(arg.str)) => ret.tag # "Some"

\* The RGBA8 value the documented grammar gives a string of each form.
DocumentedValue(form, f) ==
    IF form = "hex3" THEN SomeColor(17 * f[1], 17 * f[2], 17 * f[3], 255)
    ELSE IF form = "hex6" THEN SomeColor(f[1], f[2], f[3], 255)
    ELSE IF form = "hex8" THEN SomeColor(f[1], f[2], f[3], f[4])
    ELSE IF form = "rgb" THEN SomeColor(f[1], f[2], f[3], 255)
    ELSE SomeColor(f[1], f[2], f[3], (f[4] * 255) \div 1000)

\* C7: Color.parse maps each accepted form to the documented RGBA8 value:
\* #RGB gives 17*d per digit and alpha 255, #RRGGBB alpha 255, #RRGGBBAA the
\* alpha of its last two digits, rgb(r,g,b) alpha 255, rgba(r,g,b,a) alpha
\* a*255 truncated toward zero.
C7_AcceptedFormsValue ==
    (fn = "Color::parse" /\ arg.form \in {"hex3", "hex6", "hex8", "rgb", "rgba"})
        => ret = DocumentedValue(arg.form, arg.fields)

\* rgba(..., 0.5) has been parsed to alpha 127.
C7_Witness ==
    /\ fn = "Color::parse"
    /\ arg.form = "rgba"
    /\ arg.fields[4] = 500
    /\ ret.tag = "Some"
    /\ ret.a = 127

\* C8: for every colour c with alpha strictly between 0 and 255,
\* parse(to_css(c)) succeeds and each of r, g, b, a differs from c's by at
\* most 1.
C8_RoundTripWithinOne ==
    (fn = "Color::parse(to_css)" /\ arg.c.a > 0 /\ arg.c.a < 255)
        => /\ ret.parsed.tag = "Some"
           /\ Abs(ret.parsed.r - arg.c.r) <= 1
           /\ Abs(ret.parsed.g - arg.c.g) <= 1
           /\ Abs(ret.parsed.b - arg.c.b) <= 1
           /\ Abs(ret.parsed.a - arg.c.a) <= 1

\* A colour of alpha 127 has been written as rgba(..,0.498) and read back
\* with alpha 126.
C8_Witness ==
    /\ fn = "Color::parse(to_css)"
    /\ arg.c.a = 127
    /\ arg.c.r = 128
    /\ ret.css[Len(ret.css) - 1] = "8"
    /\ ret.parsed.tag = "Some"
    /\ ret.parsed.a = 126

\* ------------------------------------------------------------------------
\* Claims about the shorthands (specification SpecShorthand)
\* ------------------------------------------------------------------------

\* The values of the tokens when every token is a number, else <<>>.
AllNumbers(toks) == \A i \in 1..Len(toks) : ParseF32(toks[i]).tag = "Some"

TokenValues(toks) == [i \in 1..Len(toks) |-> ParseF32(toks[i]).val]

\* C9: Spacing.to_edges expands a shorthand string by its number of
\* whitespace-separated tokens: 1 token gives [a,a,a,a], 2 give [a,b,a,b],
\* 3 give [a,b,c,b], 4 give [a,b,c,d], any other count gives [0,0,0,0]; a
\* uniform scalar v gives [v,v,v,v].
C9_EdgesByTokenCount ==
    fn = "Spacing::to_edges" =>
        IF arg.kind = "Uniform" THEN ret = <<arg.v, arg.v, arg.v, arg.v>>
        ELSE LET toks == SplitWhitespace(arg.s)
                 n == Len(toks)
                 t == TokenValues(toks)
             IN  /\ n \notin 1..4 => ret = <<0, 0, 0, 0>>
                 /\ (n = 1 /\ AllNumbers(toks)) => ret = <<t[1], t[1], t[1], t[1]>>
                 /\ (n = 2 /\ AllNumbers(toks)) => ret = <<t[1], t[2], t[1], t[2]>>
                 /\ (n = 3 /\ AllNumbers(toks)) => ret = <<t[1], t[2], t[3], t[2]>>
                 /\ (n = 4 /\ AllNumbers(toks)) => ret = <<t[1], t[2], t[3], t[4]>>

\* C10: BorderRadius.to_corners expands a shorthand string by its token
\* count: 1 token gives [a,a,a,a], 2 give [a,b,a,b], 4 give [a,b,c,d]; a
\* 3-token string and every other token count give [0,0,0,0].
C10_CornersByTokenCount ==
    (fn = "BorderRadius::to_corners" /\ arg.kind = "Multi") =>
        LET toks == SplitWhitespace(arg.s)
            n == Len(toks)
            t == TokenValues(toks)
        IN  /\ n \notin {1, 2, 4} => ret = <<0, 0, 0, 0>>
            /\ (n = 1 /\ AllNumbers(toks)) => ret = <<t[1], t[1], t[1], t[1]>>
            /\ (n = 2 /\ AllNumbers(toks)) => ret = <<t[1], t[2], t[1], t[2]>>
            /\ (n = 4 /\ AllNumbers(toks)) => ret = <<t[1], t[2], t[3], t[4]>>

\* ------------------------------------------------------------------------
\* Claims about the canvas and the text of the output (specification Spec)
\* ------------------------------------------------------------------------

\* The solved layout of the root node of the running call
RootLayout == layout_result.taffy.layouts[layout_result.root]

\* The <svg> root as SvgBuilder::new writes it for a canvas of w by h
SvgRoot(w, h) ==
    Piece("<svg xmlns xmlns:xlink width=\"{:.p$}\" height=\"{:.p$}\" viewBox=\"0 0 {:.p$} {:.p$}\">",
          <<Fmt2(w), Fmt2(h), Fmt2(w), Fmt2(h)>>)

\* C11: the width and height of the CompileResult, the width and height
\* attributes of the <svg> root and the W, H of its viewBox are the solved
\* width and height of the root node, at two decimals, whatever the viewport
\* of the options; the 200 by 100 box at the default options declares
\* width="200.00" height="100.00".
C11_CanvasIsRootSize ==
    (pc = "returned" /\ result.tag = "Ok") =>
        /\ result.width = RootLayout.w
        /\ result.height = RootLayout.h
        /\ \E i \in 1..Len(result.svg) : result.svg[i] = SvgRoot(RootLayout.w, RootLayout.h)
        /\ \A i \in 1..Len(result.svg) :
               result.svg[i].fmt = SvgRoot(0, 0).fmt => result.svg[i] = SvgRoot(RootLayout.w, RootLayout.h)
        /\ (input.content = Some(BoxSized) /\ input.options = DefaultOptions) =>
               \E i \in 1..Len(result.svg) :
                   /\ result.svg[i].fmt = SvgRoot(0, 0).fmt
                   /\ result.svg[i].args[1] = <<"2", "0", "0", ".", "0", "0">>
                   /\ result.svg[i].args[2] = <<"1", "0", "0", ".", "0", "0">>

\* The 200 by 100 box has been compiled at the default 800-wide options: the
\* canvas is 200 by 100 and the output has the rect filled #ff0000.
C11_Witness ==
    /\ pc = "returned" /\ result.tag = "Ok"
    /\ input.content = Some(BoxSized) /\ input.options.width = 800000
    /\ result.width = 200000 /\ result.height = 100000
    /\ \E i \in 1..Len(result.svg) :
           /\ result.svg[i].fmt = "<rect x y width height fill=\"{}\"/>"
           /\ result.svg[i].args[5] = <<"#", "f", "f", "0", "0", "0", "0">>

\* ------------------------------------------------------------------------
\* The serializer on user-supplied strings: Init draws the string, one
\* action writes it as the font family and the text of a Text command, or as
\* the source of an Image command, into a fresh builder.
\* ------------------------------------------------------------------------

\* The five characters escape_xml replaces, a letter and the semicolon
EscapeAlphabet == {"&", "<", ">", "\"", "'", "a", ";"}

EscapeInputs == SeqsUpTo(EscapeAlphabet, MaxEscapeLen)

\* RenderCommand::Text with the string as family and as the text of n lines
TextCommandOf(str, n) ==
    [kind |-> "Text", x |-> 0, y |-> 0, content |-> str, font_family |-> str,
     font_size |-> 16000, font_weight |-> 400, color |-> ColorBlack,
     lines |-> [i \in 1..n |-> [x |-> 0, y |-> 16000 * i, text |-> str]]]

\* render_command on a Text command of one line
SerializeText ==
    /\ fn = "input"
    /\ fn' = "render_text"
    /\ ret' = RenderCommand(SvgBuilderNew(0, 0), TextCommandOf(arg, 1)).output
    /\ UNCHANGED <<arg, compile_vars>>

\* render_command on a Text command of two lines
SerializeTspans ==
    /\ fn = "input"
    /\ fn' = "render_text(tspans)"
    /\ ret' = RenderCommand(SvgBuilderNew(0, 0), TextCommandOf(arg, 2)).output
    /\ UNCHANGED <<arg, compile_vars>>

\* render_command on an Image command, with and without rounded corners
SerializeImage ==
    /\ fn = "input"
    /\ fn' = "render_image"
    /\ \E radius \in {Zero4, <<4000, 4000, 4000, 4000>>} :
           ret' = RenderCommand(SvgBuilderNew(0, 0),
                                [kind |-> "Image", rect |-> Rect(0, 0, 10000, 10000),
                                 src |-> arg, border_radius |-> radius]).output
    /\ UNCHANGED <<arg, compile_vars>>

InitEscape ==
    /\ fn = "input"
    /\ arg \in EscapeInputs
    /\ ret = None
    /\ NoCompile

NextEscape == SerializeText \/ SerializeTspans \/ SerializeImage

SpecEscape == InitEscape /\ [][NextEscape]_vars

\* The five entities
Entities ==
    {<<"&", "a", "m", "p", ";">>, <<"&", "l", "t", ";">>, <<"&", "g", "t", ";">>,
     <<"&", "q", "u", "o", "t", ";">>, <<"&", "a", "p", "o", "s", ";">>}

\* No < > " ' in s, and every & of s starts one of the five entities
Clean(s) ==
    \A k \in 1..Len(s) :
        /\ s[k] \notin {"<", ">", "\"", "'"}
        /\ s[k] = "&" =>
               \E e \in Entities : k + Len(e) - 1 <= Len(s) /\ SubSeq(s, k, k + Len(e) - 1) = e

RECURSIVE EachEscapedOnce(_)
\* Every character of s replaced by its entity, once: what is put for one
\* character is not looked at again
EachEscapedOnce(s) ==
    IF s = <<>> THEN <<>>
    ELSE (CASE Head(s) = "&" -> <<"&", "a", "m", "p", ";">>
            [] Head(s) = "<" -> <<"&", "l", "t", ";">>
            [] Head(s) = ">" -> <<"&", "g", "t", ";">>
            [] Head(s) = "\"" -> <<"&", "q", "u", "o", "t", ";">>
            [] Head(s) = "'" -> <<"&", "a", "p", "o", "s", ";">>
            [] OTHER -> <<Head(s)>>) \o EachEscapedOnce(Tail(s))

\* The arguments of a piece of the output that are user-supplied strings:
\* the family and the text of <text>, the text of <tspan>, the href of <image>
UserArgs(piece) ==
    CASE piece.fmt = "<text x=\"{:.p$}\" y=\"{:.p$}\" fill=\"{}\" font-family=\"{}\" font-size=\"{:.p$}\" font-weight=\"{}\">{}</text>" -> {4, 7}
      [] piece.fmt = "<text fill=\"{}\" font-family=\"{}\" font-size=\"{:.p$}\" font-weight=\"{}\">" -> {2}
      [] piece.fmt = "<tspan x=\"{:.p$}\" y=\"{:.p$}\">{}</tspan>" -> {3}
      [] piece.fmt = "<image x y width height xlink:href=\"{}\"/>" -> {5}
      [] piece.fmt = "<image x y width height xlink:href=\"{}\" clip-path=\"url(#img-clip-{})\"/>" -> {5}
      [] OTHER -> {}

\* C12: the font family, the image source and the text of every line are
\* written escaped: what is written has none of < > " ' and each & in it
\* starts one of the five entities, and it is the string with each character
\* replaced once (the & of an entity is not escaped again).
C12_UserStringsEscaped ==
    fn # "input" =>
        /\ \E i \in 1..Len(ret) : UserArgs(ret[i]) # {}
        /\ \A i \in 1..Len(ret) :
               /\ \A k \in 1..Len(ret[i].args) : Clean(ret[i].args[k])
               /\ \A k \in UserArgs(ret[i]) : ret[i].args[k] = EachEscapedOnce(arg)

\* A string with an ampersand and two other special characters has been
\* written as the family and the text of a <text>.
C12_Witness ==
    /\ fn = "render_text"
    /\ arg = <<"&", "<", "'">>
    /\ \E i \in 1..Len(ret) :
           /\ UserArgs(ret[i]) = {4, 7}
           /\ ret[i].args[7] = <<"&", "a", "m", "p", ";", "&", "l", "t", ";", "&", "a", "p", "o", "s", ";">>

RECURSIVE TextContents(_)
RECURSIVE TextContentsOfAll(_)
\* The contents of the text elements of an element tree, in document order
TextContentsOfAll(els) ==
    IF els = <<>> THEN <<>> ELSE TextContents(Head(els)) \o TextContentsOfAll(Tail(els))

TextContents(el) ==
    IF el.type = "text" THEN <<el.content>>
    ELSE IF el.type \in {"box", "flex"} THEN TextContentsOfAll(el.children)
    ELSE <<>>

\* The output has the escaped string as the text of a <text> or of a <tspan>
WrittenAsText(output, str) ==
    \E i \in 1..Len(output) :
        \/ UserArgs(output[i]) = {4, 7} /\ output[i].args[7] = EachEscapedOnce(str)
        \/ UserArgs(output[i]) = {3} /\ output[i].args[3] = EachEscapedOnce(str)

\* Every text element of the document that has content is in the output
EveryTextWritten ==
    \A k \in 1..Len(TextContents(element.val)) :
        TextContents(element.val)[k] # <<>> =>
            WrittenAsText(result.svg, TextContents(element.val)[k])

RadiusValues == {-5000, 0, 4000, 8000}

RadiiInputs == {<<a, b, c, d>> : a \in RadiusValues, b \in RadiusValues, c \in RadiusValues, d \in RadiusValues}

\* render_command on a FillRect command, opaque or half transparent
SerializeFillRect ==
    /\ fn = "input"
    /\ fn' = "render_fill_rect"
    /\ \E a \in {255, 128} :
           ret' = RenderCommand(SvgBuilderNew(0, 0),
                                [kind |-> "FillRect", rect |-> Rect(0, 0, 100000, 50000),
                                 color |-> [r |-> 255, g |-> 0, b |-> 0, a |-> a],
                                 border_radius |-> arg]).output
    /\ UNCHANGED <<arg, compile_vars>>

InitFill ==
    /\ fn = "input"
    /\ arg \in RadiiInputs
    /\ ret = None
    /\ NoCompile

NextFill == SerializeFillRect

SpecFill == InitFill /\ [][NextFill]_vars

\* The form of the one element the serializer wrote after the <svg root
FillForm ==
    IF Len(ret) # 3 THEN "none"
    ELSE IF ret[3].fmt = "<rect x y width height fill=\"{}\"/>" THEN "plain"
    ELSE IF ret[3].fmt = "<rect x y width height rx=\"{:.p$}\" fill=\"{}\"/>" THEN "rx"
    ELSE IF ret[3].fmt = "<path d=\"{}\" fill=\"{}\"/>" THEN "path"
    ELSE "other"

AllEqual(radii) == \A i \in 1..4 : radii[i] = radii[1]

\* C14 as stated: a filled rectangle is a plain <rect> when the four radii
\* are 0, a <rect rx> when the four radii are equal and not 0, and a <path>
\* only when the radii are not all equal.
C14_FormByNonzeroRadii ==
    fn = "render_fill_rect" =>
        /\ FillForm \in {"plain", "rx", "path"}
        /\ arg = Zero4 => FillForm = "plain"
        /\ (AllEqual(arg) /\ arg[1] # 0) => FillForm = "rx"
        /\ FillForm = "path" => ~AllEqual(arg)

\* C14, amended: a filled rectangle is a plain <rect> when no radius is
\* above 0 (so when all four are 0), a <rect rx> with the common radius when
\* the four radii are equal and above 0, and a <path> only when the radii
\* are not all equal.
C14_FormByPositiveRadii ==
    fn = "render_fill_rect" =>
        /\ FillForm \in {"plain", "rx", "path"}
        /\ (\A i \in 1..4 : arg[i] <= 0) => FillForm = "plain"
        /\ (AllEqual(arg) /\ arg[1] > 0) => FillForm = "rx" /\ ret[3].args[5] = Fmt2(arg[1])
        /\ FillForm = "path" => ~AllEqual(arg)

\* A rectangle with four radii of 4 has been written in the rx form.
C14_Witness ==
    /\ fn = "render_fill_rect"
    /\ arg = <<4000, 4000, 4000, 4000>>
    /\ FillForm = "rx"
    /\ ret[3].args[5] = <<"4", ".", "0", "0">>

\* ------------------------------------------------------------------------
\* Claims about the layout tree and the command stream (specification Spec)
\* ------------------------------------------------------------------------

\* The nodes of the Taffy tree of the running call.  A NodeId is the rank of
\* the node's construction: the n-th node constructed has NodeId n.
Nodes == layout_result.taffy.nodes

RECURSIVE PreOrder(_)
RECURSIVE PreOrderOfAll(_)
\* The NodeIds of the subtree of id, a node before the subtrees of its children
PreOrderOfAll(ids) == IF ids = <<>> THEN <<>> ELSE PreOrder(Head(ids)) \o PreOrderOfAll(Tail(ids))

PreOrder(id) == <<id>> \o PreOrderOfAll(Nodes[id].children)

RECURSIVE PostOrder(_)
RECURSIVE PostOrderOfAll(_)
\* The NodeIds of the subtree of id, a node after the subtrees of its children
PostOrderOfAll(ids) ==
    IF ids = <<>> THEN <<>> ELSE PostOrder(Head(ids)) \o PostOrderOfAll(Tail(ids))

PostOrder(id) == PostOrderOfAll(Nodes[id].children) \o <<id>>

RECURSIVE NodeIsElement(_, _)
\* The node id stands for the element el, and its children, in order, for
\* the children of el
NodeIsElement(id, el) ==
    LET type == layout_result.node_data[id].element_type
    IN  IF el.type = "text"
        THEN type.kind = "Text" /\ type.content = el.content /\ Nodes[id].children = <<>>
        ELSE IF el.type = "image"
        THEN type.kind = "Image" /\ type.src = el.src /\ Nodes[id].children = <<>>
        ELSE /\ type.kind = (IF el.type = "box" THEN "Box" ELSE "Flex")
             /\ Len(Nodes[id].children) = Len(el.children)
             /\ \A k \in 1..Len(el.children) : NodeIsElement(Nodes[id].children[k], el.children[k])

\* C15 as stated: the nodes are constructed in depth-first pre-order of the
\* element tree, a parent before its children, and the children of a node
\* are those of its element, in order.
C15_PreOrderConstruction ==
    pc = "built" =>
        /\ PreOrder(layout_result.root) = [n \in 1..Len(Nodes) |-> n]
        /\ \A id \in 1..Len(Nodes) : \A k \in 1..Len(Nodes[id].children) : id < Nodes[id].children[k]
        /\ NodeIsElement(layout_result.root, element.val)

\* C15, amended: the nodes are constructed in depth-first post-order of the
\* element tree, a parent after all its children and each child's subtree
\* before the next child's, and the children of a node are those of its
\* element, in order.
C15_PostOrderConstruction ==
    pc = "built" =>
        /\ PostOrder(layout_result.root) = [n \in 1..Len(Nodes) |-> n]
        /\ \A id \in 1..Len(Nodes) : \A k \in 1..Len(Nodes[id].children) : id > Nodes[id].children[k]
        /\ NodeIsElement(layout_result.root, element.val)

\* A tree three levels deep has been built: a root over a text and a box,
\* the box over a flex with two leaves.
C15_Witness ==
    /\ pc = "built"
    /\ element.val.type = "box"
    /\ Len(Nodes) = 6
    /\ layout_result.root = 6
    /\ Nodes[6].children = <<1, 5>>
    /\ Nodes[5].children = <<4>>
    /\ Nodes[4].children = <<2, 3>>

\* What tells a command from the others of its kind: the opacity of a
\* PushOpacity, the colour of a FillRect or a StrokeRect, the content of a
\* Text, the source of an Image
CommandTag(cmd) ==
    [kind |-> cmd.kind,
     of |-> CASE cmd.kind = "PushOpacity" -> Fmt2(cmd.opacity)
              [] cmd.kind \in {"FillRect", "StrokeRect"} -> ToCss(cmd.color)
              [] cmd.kind = "Text" -> cmd.content
              [] cmd.kind = "Image" -> cmd.src
              [] OTHER -> <<>>]

\* The opacity of an element: a text has none of its own
OpacityOf(el) ==
    IF el.type = "text" \/ el.style.opacity = None THEN 1000 ELSE el.style.opacity.val

RECURSIVE CommandsInOrder(_)
RECURSIVE CommandsInOrderOfAll(_)
\* The commands of the subtrees of the elements, one subtree after the other
CommandsInOrderOfAll(els) ==
    IF els = <<>> THEN <<>>
    ELSE CommandsInOrder(Head(els)) \o CommandsInOrderOfAll(Tail(els))

\* The commands the claim gives an element, in its order
CommandsInOrder(el) ==
    LET container == el.type \in {"box", "flex"}
        fill == container /\ el.style.background_color # None /\ el.style.background_color.a > 0
        stroke == /\ container
                  /\ el.style.border_width # None /\ el.style.border_width.val > 0
                  /\ el.style.border_color # None /\ el.style.border_color.a > 0
    IN  (IF OpacityOf(el) < 1000
         THEN <<[kind |-> "PushOpacity", of |-> Fmt2(OpacityOf(el))]>> ELSE <<>>)
        \o (IF fill THEN <<[kind |-> "FillRect", of |-> ToCss(el.style.background_color)]>>
            ELSE <<>>)
        \o (IF stroke THEN <<[kind |-> "StrokeRect", of |-> ToCss(el.style.border_color)]>>
            ELSE <<>>)
        \o (IF container THEN CommandsInOrderOfAll(el.children)
            ELSE IF el.type = "text" THEN <<[kind |-> "Text", of |-> el.content]>>
            ELSE <<[kind |-> "Image", of |-> el.src]>>)
        \o (IF OpacityOf(el) < 1000 THEN <<[kind |-> "PopOpacity", of |-> <<>>]>> ELSE <<>>)

\* C16: the commands of every node come in this order: PushOpacity if the
\* opacity is below 1, FillRect if the background has alpha above 0,
\* StrokeRect if the border has a width above 0 and a colour with alpha above
\* 0, then the commands of the children's subtrees in child order, or one
\* Text, or one Image, then PopOpacity exactly when PushOpacity was emitted.
C16_CommandOrder ==
    pc = "flattened" =>
        [i \in 1..Len(render_tree.commands) |-> CommandTag(render_tree.commands[i])]
            = CommandsInOrder(element.val)

\* A faded, bordered root over a faded, filled box with a faded image, and a
\* text after the box, has been flattened.
C16_Witness ==
    /\ pc = "flattened"
    /\ [i \in 1..Len(render_tree.commands) |-> render_tree.commands[i].kind]
           = <<"PushOpacity", "StrokeRect", "PushOpacity", "FillRect", "PushOpacity", "Image",
               "PopOpacity", "PopOpacity", "Text", "PopOpacity">>

\* The solved layouts of the running call: location within the parent, size
Layouts == layout_result.taffy.layouts

\* The node that has id among its children
ParentOf(id) ==
    CHOOSE p \in 1..Len(Nodes) : \E k \in 1..Len(Nodes[p].children) : Nodes[p].children[k] = id

RECURSIVE OffsetSum(_)
\* The sum of the local offsets of a node and of all its ancestors
OffsetSum(id) ==
    IF id = layout_result.root THEN [x |-> Layouts[id].x, y |-> Layouts[id].y]
    ELSE [x |-> Layouts[id].x + OffsetSum(ParentOf(id)).x,
          y |-> Layouts[id].y + OffsetSum(ParentOf(id)).y]

\* The rectangle of a node: the sum of the offsets and its own solved size
AbsoluteRect(id) == Rect(OffsetSum(id).x, OffsetSum(id).y, Layouts[id].w, Layouts[id].h)

\* The command is one that node id emits, and it carries the node's
\* rectangle; a Text carries the x of the rectangle and the baseline of its
\* first line below the y of the rectangle.
CommandOfNode(cmd, id) ==
    LET data == layout_result.node_data[id]
        type == data.element_type
    IN  CASE cmd.kind = "FillRect" ->
                 /\ data.visual.background_color = Some(cmd.color)
                 /\ cmd.rect = AbsoluteRect(id)
          [] cmd.kind = "StrokeRect" ->
                 /\ data.visual.border_color = Some(cmd.color)
                 /\ cmd.rect = AbsoluteRect(id)
          [] cmd.kind = "Image" -> type.kind = "Image" /\ type.src = cmd.src /\ cmd.rect = AbsoluteRect(id)
          [] cmd.kind = "Text" ->
                 /\ type.kind = "Text" /\ type.content = cmd.content
                 /\ cmd.x = AbsoluteRect(id).x
                 /\ cmd.y = AbsoluteRect(id).y
                            + (IF cmd.lines = <<>> THEN type.style.font_size
                               ELSE Mul(type.style.font_size, ASCENT_RATIO))
                 /\ \A k \in 1..Len(cmd.lines) : cmd.lines[k].x = AbsoluteRect(id).x
          [] OTHER -> FALSE

\* The nodes that emit a command of the kind
Emitters(kind) ==
    {id \in 1..Len(Nodes) :
        LET data == layout_result.node_data[id]
        IN  CASE kind = "FillRect" ->
                     data.visual.background_color # None /\ data.visual.background_color.val.a > 0
              [] kind = "StrokeRect" ->
                     /\ data.visual.border_width > 0
                     /\ data.visual.border_color # None /\ data.visual.border_color.val.a > 0
              [] kind = "Image" -> data.element_type.kind = "Image"
              [] kind = "Text" -> data.element_type.kind = "Text"
              [] OTHER -> FALSE}

\* The positions in the stream of the commands of the kind
CommandsOfKind(kind) ==
    {i \in 1..Len(render_tree.commands) : render_tree.commands[i].kind = kind}

LeafContexts ==
    {[kind |-> "Text", content |-> c, font_size |-> fs, line_height |-> lh] :
        c \in {<<>>, <<"a", " ", "b">>, <<"a", "b", " ", "c", "d", " ", "e">>},
        fs \in {10000, 16000}, lh \in {1200, 1500, 2000}}
        \cup {[kind |-> "Image", width |-> 40000, height |-> 30000]}

\* What the solver hands to the callback: each dimension known or not, the
\* three modes of the available width, a leaf context or none
MeasureInputs ==
    {[form |-> "measure", known_dimensions |-> [width |-> w, height |-> h],
      available_space |-> a, node_context |-> c] :
        w \in {None, Some(50000)}, h \in {None, Some(20000)},
        a \in {Definite(30000), MinContent, MaxContent},
        c \in LeafContexts \cup {None}}

\* Texts of words of a and b, with leading, trailing and repeated spaces,
\* at widths of no, two, three and many characters, and without a limit
WrapInputs ==
    {[form |-> "wrap", text |-> t, font_size |-> fs, max_width |-> mw] :
        t \in SeqsUpTo({"a", "b", " "}, MaxWrapLen), fs \in {10000, 16000},
        mw \in {None, Some(0), Some(11000), Some(16500), Some(30000)}}

\* the solver calls the measurement callback on a leaf
MeasureLeaf ==
    /\ fn = "input"
    /\ arg.form = "measure"
    /\ fn' = "measure_function"
    /\ ret' = [size |-> MeasureFunction(arg.known_dimensions, arg.available_space,
                                        arg.node_context, TextLayoutEngineNew),
               calls |-> EngineCalls(arg.known_dimensions, arg.available_space,
                                     arg.node_context)]
    /\ UNCHANGED <<arg, compile_vars>>

\* word_wrap
WrapWords ==
    /\ fn = "input"
    /\ arg.form = "wrap"
    /\ fn' = "word_wrap"
    /\ ret' = WordWrap(arg.text, arg.font_size, arg.max_width)
    /\ UNCHANGED <<arg, compile_vars>>

InitMeasure ==
    /\ fn = "input"
    /\ arg \in MeasureInputs \cup WrapInputs
    /\ ret = None
    /\ NoCompile

NextMeasure == MeasureLeaf \/ WrapWords

SpecMeasure == InitMeasure /\ [][NextMeasure]_vars

\* C18: when both dimensions are known the callback returns them unchanged,
\* for a text leaf, an image leaf and a leaf without context, and makes no
\* call of the shaping engine.
C18_KnownDimensionsReturned ==
    (/\ fn = "measure_function"
     /\ arg.known_dimensions.width # None /\ arg.known_dimensions.height # None) =>
        /\ ret.size = [width |-> arg.known_dimensions.width.val,
                       height |-> arg.known_dimensions.height.val]
        /\ ret.calls = <<>>

\* C19: the height measured for a text leaf by the fallback estimator is
\* the number of wrapped lines times the font size times the line height of
\* the leaf's context, for every line height.
C19_HeightUsesLineHeight ==
    (/\ fn = "measure_function"
     /\ arg.node_context # None /\ arg.node_context.kind = "Text"
     /\ arg.node_context.content # <<>>
     /\ ret.calls # <<>>) =>
        ret.size.height =
            Len(WordWrap(arg.node_context.content, arg.node_context.font_size,
                         ret.calls[1].max_width))
                * Mul(arg.node_context.font_size, arg.node_context.line_height)

RECURSIVE WordsOfAll(_)
\* The words of the lines, in order
WordsOfAll(lines) ==
    IF lines = <<>> THEN <<>> ELSE SplitWhitespace(Head(lines)) \o WordsOfAll(Tail(lines))

\* C20: every line of word_wrap is at most max_width wide by the estimate,
\* or is one word that alone is wider; the words of the lines are the words
\* of the text, none split, one space between two words of a line.
C20_LinesFitOrSingleWord ==
    fn = "word_wrap" =>
        /\ WordsOfAll(ret) = SplitWhitespace(arg.text)
        /\ \A i \in 1..Len(ret) :
               /\ ret[i] = Join(SplitWhitespace(ret[i]), <<" ">>)
               /\ \/ arg.max_width = None
                  \/ EstimateTextWidth(ret[i], arg.font_size) <= arg.max_width.val
                  \/ /\ Len(SplitWhitespace(ret[i])) = 1
                     /\ EstimateTextWidth(SplitWhitespace(ret[i])[1], arg.font_size)
                            > arg.max_width.val

\* A text of a word wider than the limit and a second word has been
\* wrapped: the wide word has a line of its own.
C20_Witness ==
    /\ fn = "word_wrap"
    /\ arg.text = <<"a", "a", "a", " ", "b">>
    /\ arg.font_size = 10000 /\ arg.max_width = Some(11000)
    /\ ret = << <<"a", "a", "a">>, <<"b">> >>

\* C21: word_wrap drops and reorders no word: the words of the lines, line
\* by line, are the whitespace-separated words of the text in their order,
\* each once; a word wider than max_width is alone on its line.
C21_NoWordDroppedOrReordered ==
    fn = "word_wrap" =>
        /\ WordsOfAll(ret) = SplitWhitespace(arg.text)
        /\ \A i \in 1..Len(ret) :
               LET words == SplitWhitespace(ret[i])
               IN  \A k \in 1..Len(words) :
                       (/\ arg.max_width # None
                        /\ EstimateTextWidth(words[k], arg.font_size) > arg.max_width.val) =>
                           ret[i] = words[k]

\* A text whose second word is wider than the limit has been wrapped: both
\* words are there, the wide one alone on the second line.
C21_Witness ==
    /\ fn = "word_wrap"
    /\ arg.text = <<"b", " ", "a", "a", "a">>
    /\ arg.font_size = 10000 /\ arg.max_width = Some(11000)
    /\ ret = << <<"b">>, <<"a", "a", "a">> >>

\* ------------------------------------------------------------------------
\* The document model under the solver (specification Spec)
\* ------------------------------------------------------------------------

\* The document model: the element, the style, the children and the
\* measurement context of every node of the solver tree, the root, and the
\* side map of element types and visual styles
DocumentModel ==
    [element |-> element, nodes |-> layout_result.taffy.nodes, root |-> layout_result.root,
     node_data |-> layout_result.node_data]

\* C22: the solve step, with every call of the measurement callback the
\* solver makes, leaves the document model as it was (every context, every
\* style, the side map): it writes the layouts only; so does every later
\* step of the same compile.
C22_MeasureLeavesModelUnchanged ==
    [][(pc \in {"built", "solved", "flattened", "serialized"})
           => (DocumentModel' = DocumentModel)]_vars

\* A row flex of a text and an image has been solved: the callback ran on
\* both leaves, on each once without and once with a known height, and
\* the contexts are the ones tree-build attached.
C22_Witness ==
    /\ pc = "solved"
    /\ input.content = Some(JsonFlex(RootPlain, <<TextAB, ImageClipped>>))
    /\ Len(Nodes) = 3
    /\ Nodes[1].context = [kind |-> "Text", content |-> <<"a", " ", "b">>,
                           font_size |-> 16000, line_height |-> 1200]
    /\ Nodes[2].context = [kind |-> "Image", width |-> 40000, height |-> 30000]
    /\ DOMAIN layout_result.taffy.layouts = 1..3

\* ------------------------------------------------------------------------
\* The serializer over a command stream, one command at a time: Init draws
\* the stream, ret holds the builder and the number of commands rendered.
\* ------------------------------------------------------------------------

Rounded == <<4000, 4000, 4000, 4000>>

\* borderRadius: -5
Inward == <<-5000, -5000, -5000, -5000>>

\* Commands that open and close groups, and images with positive radii,
\* without radii and with negative radii
StreamCommands ==
    {[kind |-> "PushClip", rect |-> Rect(0, 0, 50000, 50000), border_radius |-> Zero4],
     [kind |-> "PopClip"],
     [kind |-> "PushOpacity", opacity |-> 500],
     [kind |-> "PopOpacity"],
     [kind |-> "Image", rect |-> Rect(0, 0, 40000, 30000), src |-> <<"i">>,
      border_radius |-> Rounded],
     [kind |-> "Image", rect |-> Rect(0, 0, 40000, 30000), src |-> <<"i">>,
      border_radius |-> Zero4],
     [kind |-> "Image", rect |-> Rect(0, 0, 40000, 30000), src |-> <<"i">>,
      border_radius |-> Inward]}

\* Every stream of up to MaxCommands commands, balanced or not
StreamInputs ==
    {[form |-> "commands", commands |-> c] : c \in SeqsUpTo(StreamCommands, MaxCommands)}

\* generate_svg: SvgBuilder::new
NewBuilder ==
    /\ fn = "input"
    /\ arg.form = "commands"
    /\ fn' = "generate_svg"
    /\ ret' = [builder |-> SvgBuilderNew(100000, 100000), done |-> 0]
    /\ UNCHANGED <<arg, compile_vars>>

\* generate_svg: one turn of the loop over tree.commands
RenderNextCommand ==
    /\ fn = "generate_svg"
    /\ ret.done < Len(arg.commands)
    /\ ret' = [builder |-> RenderCommand(ret.builder, arg.commands[ret.done + 1]),
               done |-> ret.done + 1]
    /\ UNCHANGED <<fn, arg, compile_vars>>

\* generate_svg: svg.finish()
Finish ==
    /\ fn = "generate_svg"
    /\ ret.done = Len(arg.commands)
    /\ fn' = "finish"
    /\ ret' = [ret EXCEPT !.builder = Push(@, Piece("</svg>", <<>>))]
    /\ UNCHANGED <<arg, compile_vars>>

InitCommands ==
    /\ fn = "input"
    /\ arg \in StreamInputs
    /\ ret = None
    /\ NoCompile

NextCommands == NewBuilder \/ RenderNextCommand \/ Finish

SpecCommands == InitCommands /\ [][NextCommands]_vars

\* The commands rendered so far
Rendered == SubSeq(arg.commands, 1, ret.done)

RECURSIVE OpenPushes(_, _)
\* The pushes of a stream that no pop has matched yet, oldest first; a pop
\* without a push to match makes the stream ill-formed
OpenPushes(commands, stack) ==
    IF commands = <<>> \/ stack = <<"ill-formed">> THEN stack
    ELSE LET kind == Head(commands).kind
         IN  OpenPushes(Tail(commands),
                        IF kind = "PushClip" THEN Append(stack, "clip")
                        ELSE IF kind = "PushOpacity" THEN Append(stack, "opacity")
                        ELSE IF kind \in {"PopClip", "PopOpacity"}
                        THEN (IF stack = <<>> THEN <<"ill-formed">>
                              ELSE SubSeq(stack, 1, Len(stack) - 1))
                        ELSE stack)

RECURSIVE OpenGroups(_, _)
\* The <g> elements of an output that are open, oldest first, as XML reads
\* it: a </g> closes the <g> opened last
OpenGroups(output, stack) ==
    IF output = <<>> \/ stack = <<"ill-formed">> THEN stack
    ELSE LET fmt == Head(output).fmt
         IN  OpenGroups(Tail(output),
                        IF fmt = "<g clip-path=\"url(#clip-{})\">" THEN Append(stack, "clip")
                        ELSE IF fmt = "<g opacity=\"{:.2}\">" THEN Append(stack, "opacity")
                        ELSE IF fmt = "</g>"
                        THEN (IF stack = <<>> THEN <<"ill-formed">>
                              ELSE SubSeq(stack, 1, Len(stack) - 1))
                        ELSE stack)

\* Pushes less pops of a stream
PushDepth(commands) ==
    Cardinality({i \in 1..Len(commands) : commands[i].kind \in {"PushClip", "PushOpacity"}})
        - Cardinality({i \in 1..Len(commands) : commands[i].kind \in {"PopClip", "PopOpacity"}})

\* <g> openings less </g> closings of an output
GroupDepth(output) ==
    Cardinality({i \in 1..Len(output) :
                    output[i].fmt \in {"<g clip-path=\"url(#clip-{})\">", "<g opacity=\"{:.2}\">"}})
        - Cardinality({i \in 1..Len(output) : output[i].fmt = "</g>"})

\* C23: after any prefix of a stream the <g> elements opened and not closed
\* are as many as the pushes not popped, and they are the groups of exactly
\* those pushes in order (each pop closed the group opened last); once a
\* balanced stream is finished, </svg> is the last thing written and no
\* group is open before it.
C23_GroupsMirrorStream ==
    fn \in {"generate_svg", "finish"} =>
        /\ GroupDepth(ret.builder.output) = PushDepth(Rendered)
        /\ OpenGroups(ret.builder.output, <<>>) = OpenPushes(Rendered, <<>>)
        /\ (fn = "finish" /\ OpenPushes(arg.commands, <<>>) = <<>>) =>
               LET out == ret.builder.output
               IN  /\ out[Len(out)].fmt = "</svg>"
                   /\ \A i \in 1..(Len(out) - 1) : out[i].fmt # "</svg>"
                   /\ OpenGroups(SubSeq(out, 1, Len(out) - 1), <<>>) = <<>>

\* A clip group around an opacity group has been serialized and finished:
\* four group tags were written.
C23_Witness ==
    /\ fn = "finish"
    /\ Len(arg.commands) = 4
    /\ arg.commands[1].kind = "PushClip" /\ arg.commands[2].kind = "PushOpacity"
    /\ arg.commands[3].kind = "PopOpacity" /\ arg.commands[4].kind = "PopClip"
    /\ Cardinality({i \in 1..Len(ret.builder.output) : ret.builder.output[i].fmt = "</g>"}) = 2

\* The id a piece of the output defines, as its kind and its number; none
\* for the pieces that define no clip path
DefinedId(piece) ==
    IF piece.fmt = "<clipPath id=\"clip-{}\">" THEN <<<<"clip-">>, piece.args[1]>>
    ELSE IF piece.fmt = "<clipPath id=\"img-clip-{}\">" THEN <<<<"img-clip-">>, piece.args[1]>>
    ELSE <<>>

\* The id a piece of the output refers to by clip-path="url(#...)"
ReferredId(piece) ==
    IF piece.fmt = "<g clip-path=\"url(#clip-{})\">" THEN <<<<"clip-">>, piece.args[1]>>
    ELSE IF piece.fmt = "<image x y width height xlink:href=\"{}\" clip-path=\"url(#img-clip-{})\"/>"
    THEN <<<<"img-clip-">>, piece.args[6]>>
    ELSE <<>>

RECURSIVE DefinedIds(_)
\* The ids the output defines, in order
DefinedIds(output) ==
    IF output = <<>> THEN <<>>
    ELSE (IF DefinedId(Head(output)) = <<>> THEN <<>> ELSE <<DefinedId(Head(output))>>)
             \o DefinedIds(Tail(output))

\* The indices of the commands of a stream that take an id, for a test of
\* the radii of an image
IdTakers(commands, radius_counts(_)) ==
    {i \in 1..Len(commands) :
        \/ commands[i].kind = "PushClip"
        \/ commands[i].kind = "Image" /\ \E k \in 1..4 : radius_counts(commands[i].border_radius[k])}

IsNonzero(r) == r # 0

IsPositive(r) == r > 0

\* The counter is 0 before the first command and is the number of commands
\* so far that take an id; the k-th clipPath definition has the number
\* k - 1; no id is defined twice; every reference names an id defined by an
\* earlier piece.
ClipIdsInOrder(radius_counts(_)) ==
    fn \in {"generate_svg", "finish"} =>
        LET out == ret.builder.output
            ids == DefinedIds(out)
        IN  /\ ret.builder.clip_id_counter = Cardinality(IdTakers(Rendered, radius_counts))
            /\ ret.done = 0 => ret.builder.clip_id_counter = 0
            /\ Len(ids) = ret.builder.clip_id_counter
            /\ \A k \in 1..Len(ids) : ids[k][2] = FmtInt(k - 1)
            /\ \A k, l \in 1..Len(ids) : ids[k] = ids[l] => k = l
            /\ \A j \in 1..Len(out) :
                   ReferredId(out[j]) # <<>> =>
                       \E i \in 1..(j - 1) : DefinedId(out[i]) = ReferredId(out[j])

\* C24: as stated, every PushClip and every image with a nonzero corner
\* radius takes the current counter value and increments the counter.
C24_NonzeroRadiusTakesId == ClipIdsInOrder(IsNonzero)

\* C24, amended: every PushClip and every image with a corner radius
\* greater than 0 takes the current counter value and increments the
\* counter; the counter starts at 0 and never decreases, no two clipPath
\* definitions share an id, every reference names an id defined earlier.
C24_PositiveRadiusTakesId == ClipIdsInOrder(IsPositive)

\* A clip group holding a clipped image, then a second clipped image, has
\* been serialized: ids 0, 1 and 2 were taken.
C24_Witness ==
    /\ fn = "finish"
    /\ Len(arg.commands) = 4
    /\ arg.commands[1].kind = "PushClip"
    /\ arg.commands[2].kind = "Image" /\ arg.commands[2].border_radius = Rounded
    /\ arg.commands[3].kind = "PopClip"
    /\ arg.commands[4].kind = "Image" /\ arg.commands[4].border_radius = Rounded
    /\ ret.builder.clip_id_counter = 3
    /\ DefinedIds(ret.builder.output)
           = << <<<<"clip-">>, <<"0">>>>, <<<<"img-clip-">>, <<"1">>>>,
                <<<<"img-clip-">>, <<"2">>>> >>

\* ------------------------------------------------------------------------
\* Borders and text in the SVG (specification Spec)
\* ------------------------------------------------------------------------

StrokePath == "<path d=\"{}\" fill=\"none\" stroke=\"{}\" stroke-width=\"{:.p$}\"/>"

StrokeRx == "<rect x y width height rx=\"{:.p$}\" fill=\"none\" stroke=\"{}\" stroke-width=\"{:.p$}\"/>"

StrokePlain == "<rect x y width height fill=\"none\" stroke=\"{}\" stroke-width=\"{:.p$}\"/>"

\* The positions in the SVG of the strokes
StrokesWritten == {i \in 1..Len(svg) : svg[i].fmt \in {StrokePath, StrokeRx, StrokePlain}}

\* The geometry and the stroke-width a stroke of the SVG has: x, y, width
\* and height of a <rect>, the numbers of a <path>
StrokeWritten(piece) ==
    IF piece.fmt = StrokePath
    THEN [geometry |-> SubSeq(piece.args, 1, 26), stroke_width |-> piece.args[28]]
    ELSE IF piece.fmt = StrokeRx
    THEN [geometry |-> SubSeq(piece.args, 1, 4), stroke_width |-> piece.args[7]]
    ELSE [geometry |-> SubSeq(piece.args, 1, 4), stroke_width |-> piece.args[6]]

\* The stroke of the border of a node: the node's absolute rect inset by
\* half the border width on each side, and the border width
StrokeOfNode(id) ==
    LET rect == AbsoluteRect(id)
        visual == layout_result.node_data[id].visual
        s == visual.border_width
        inset == Rect(rect.x + s \div 2, rect.y + s \div 2, rect.width - s, rect.height - s)
    IN  [geometry |-> IF (\E k \in 1..4 : visual.border_radius[k] > 0)
                         /\ (\E k \in 1..4 : visual.border_radius[k] # visual.border_radius[1])
                      THEN RoundedRectPath(inset, visual.border_radius)
                      ELSE <<Fmt2(inset.x), Fmt2(inset.y), Fmt2(inset.width), Fmt2(inset.height)>>,
         stroke_width |-> Fmt2(s)]

\* C25: the border of every node with border width s > 0 and a border color
\* that is not transparent is written with x + s/2, y + s/2, width - s and
\* height - s of the node's absolute rect and stroke-width s, and nothing
\* else is stroked.
C25_BorderInsetByHalf ==
    pc = "serialized" =>
        /\ Cardinality(StrokesWritten) = Cardinality(Emitters("StrokeRect"))
        /\ \A id \in Emitters("StrokeRect") :
               \E i \in StrokesWritten : StrokeWritten(svg[i]) = StrokeOfNode(id)
        /\ \A i \in StrokesWritten :
               \E id \in Emitters("StrokeRect") : StrokeWritten(svg[i]) = StrokeOfNode(id)

\* A root with a border of 3 and a child with a border of 1 and unequal
\* radii have been serialized: a <rect rx> stroke 1.5 inside the root's
\* rect and a <path> stroke are written.
C25_Witness ==
    /\ pc = "serialized"
    /\ \E i, j \in StrokesWritten :
           /\ svg[i].fmt = StrokeRx /\ svg[j].fmt = StrokePath
           /\ svg[i].args[1] = <<"1", ".", "5", "0">>
           /\ svg[i].args[7] = <<"3", ".", "0", "0">>
           /\ svg[j].args[28] = <<"1", ".", "0", "0">>

\* ------------------------------------------------------------------------
\* The serializer on a Text command: Init draws the lines, the action
\* writes the command into a fresh builder.
\* ------------------------------------------------------------------------

\* TextLineRender values
LineValues ==
    {[x |-> x, y |-> y, text |-> t] :
        x \in {0, 5000}, y \in {12800, 32000}, t \in {<<"a">>, <<"b", " ", "<">>}}

\* RenderCommand::Text with no line, one line, and up to MaxLines lines
TextInputs ==
    {[form |-> "text",
      command |-> [kind |-> "Text", x |-> 0, y |-> 12800, content |-> <<"a">>,
                   font_family |-> <<"F">>, font_size |-> 16000, font_weight |-> 400,
                   color |-> ColorBlack, lines |-> l]] :
        l \in SeqsUpTo(LineValues, MaxLines)}

\* render_command on the Text command
SerializeTextCommand ==
    /\ fn = "input"
    /\ arg.form = "text"
    /\ fn' = "render_text"
    /\ ret' = RenderCommand(SvgBuilderNew(100000, 100000), arg.command).output
    /\ UNCHANGED <<arg, compile_vars>>

InitText ==
    /\ fn = "input"
    /\ arg \in TextInputs
    /\ ret = None
    /\ NoCompile

NextText == SerializeTextCommand

SpecText == InitText /\ [][NextText]_vars

TextOneLine == "<text x=\"{:.p$}\" y=\"{:.p$}\" fill=\"{}\" font-family=\"{}\" font-size=\"{:.p$}\" font-weight=\"{}\">{}</text>"

TextOpen == "<text fill=\"{}\" font-family=\"{}\" font-size=\"{:.p$}\" font-weight=\"{}\">"

Tspan == "<tspan x=\"{:.p$}\" y=\"{:.p$}\">{}</tspan>"

\* C26: a Text command without lines writes nothing; with one line it
\* writes one <text> with the x and y of the line; with n >= 2 lines it
\* writes one <text>, then n <tspan>, the i-th with the x, the y and the
\* text of line i, then </text>.
C26_TextByLineCount ==
    fn = "render_text" =>
        LET lines == arg.command.lines
            n == Len(lines)
            written == SubSeq(ret, 3, Len(ret))
        IN  /\ n = 0 => written = <<>>
            /\ n = 1 =>
                   /\ Len(written) = 1
                   /\ written[1].fmt = TextOneLine
                   /\ written[1].args[1] = Fmt2(lines[1].x)
                   /\ written[1].args[2] = Fmt2(lines[1].y)
                   /\ written[1].args[7] = EscapeXml(lines[1].text)
            /\ n >= 2 =>
                   /\ Len(written) = n + 2
                   /\ written[1].fmt = TextOpen
                   /\ written[n + 2].fmt = "</text>"
                   /\ \A i \in 1..n :
                          /\ written[i + 1].fmt = Tspan
                          /\ written[i + 1].args
                                 = <<Fmt2(lines[i].x), Fmt2(lines[i].y), EscapeXml(lines[i].text)>>

\* A Text command of three lines at three different places has been
\* written: a <text>, three <tspan> and a </text> after the <svg> root.
C26_Witness ==
    /\ fn = "render_text"
    /\ Len(arg.command.lines) = 3
    /\ arg.command.lines[1].y # arg.command.lines[2].y
    /\ arg.command.lines[2].x # arg.command.lines[3].x
    /\ Len(ret) = 7
    /\ ret[4].fmt = Tspan /\ ret[6].fmt = Tspan

\* ------------------------------------------------------------------------
\* Text lines and hidden elements in the command stream (specification
\* Spec), and the totality of Color::parse (specification SpecColor)
\* ------------------------------------------------------------------------

\* The lines the layout of the text of a node has, at the node's solved width
LaidOutLines(id) ==
    LET type == layout_result.node_data[id].element_type
    IN  Layout(text_engine, type.content, type.style.font_size, type.style.line_height,
               AbsoluteRect(id).width).lines

\* C27: the Text command of a text node laid out in n >= 2 lines has n line
\* entries, the i-th with the text of the i-th laid-out line only.
C27_LineEntryHasLineText ==
    pc = "flattened" =>
        \A id \in Emitters("Text") :
            Len(LaidOutLines(id)) >= 2 =>
                \E i \in CommandsOfKind("Text") :
                    LET cmd == render_tree.commands[i]
                    IN  /\ CommandOfNode(cmd, id)
                        /\ Len(cmd.lines) = Len(LaidOutLines(id))
                        /\ \A k \in 1..Len(cmd.lines) :
                               cmd.lines[k].text = LaidOutLines(id)[k].text

\* C28: the i-th line entry of the Text command of a text node has the y of
\* the node's absolute rect plus the baseline the layout gave line i, and
\* the first entry has the y of the command.
C28_LineEntryAtBaseline ==
    pc = "flattened" =>
        \A id \in Emitters("Text") :
            \E i \in CommandsOfKind("Text") :
                LET cmd == render_tree.commands[i]
                IN  /\ CommandOfNode(cmd, id)
                    /\ Len(cmd.lines) = Len(LaidOutLines(id))
                    /\ \A k \in 1..Len(cmd.lines) :
                           cmd.lines[k].y = AbsoluteRect(id).y + LaidOutLines(id)[k].baseline
                    /\ cmd.lines # <<>> => cmd.lines[1].y = cmd.y

RECURSIVE IsHidden(_)
\* The node or one of its ancestors has display none
IsHidden(id) ==
    \/ Nodes[id].style.display = "None"
    \/ id # layout_result.root /\ IsHidden(ParentOf(id))

\* C29: the elements with display none and their descendants emit nothing:
\* the commands of each kind are as many as the nodes outside hidden
\* subtrees that emit one.
C29_HiddenEmitsNothing ==
    pc = "flattened" =>
        /\ \A kind \in {"FillRect", "StrokeRect", "Image", "Text"} :
               Cardinality(CommandsOfKind(kind))
                   = Cardinality({id \in Emitters(kind) : ~IsHidden(id)})
        /\ \A kind \in {"PushOpacity", "PopOpacity"} :
               Cardinality(CommandsOfKind(kind))
                   = Cardinality({id \in 1..Len(Nodes) :
                                     /\ layout_result.node_data[id].visual.opacity < 1000
                                     /\ ~IsHidden(id)})

\* C30: Color::parse returns a color or None for every string, and never
\* aborts.
C30_ParseIsTotal ==
    fn = "Color::parse" => ret # Panic

====
